---- MODULE Spec2Model ----
(***************************************************************************)
(* Transactional integrity layer of the B2B settlement backend:            *)
(* transactional outbox + worker, nonce store + signature verifier,        *)
(* distributed lock, unit-of-work runner, ledger poster and the wallet     *)
(* primary/verified state machine.                                         *)
(*                                                                         *)
(* Each component has its own variables and its own specification; a       *)
(* component's specification keeps the other components' variables fixed.  *)
(* Database statements and key-value commands are the atomic steps: one    *)
(* action per statement, interleaved freely between concurrent callers.    *)
(***************************************************************************)
EXTENDS Integers, Sequences, FiniteSets, TLC

VARIABLES
    \* ---- outbox_jobs table and the workers polling it
    obRows,        \* id -> row of outbox_jobs
    obNow,         \* the database clock NOW(), in seconds
    wpc,           \* worker -> position in Run/processBatch/processEvent
    wcand,         \* worker -> rows returned by GetPendingOutboxJobs, not yet locked
    wevents,       \* worker -> events FetchAndLock returned, not yet processed
    wres,          \* worker -> outcome of the processor call being reported
    obLease,       \* history: id -> worker whose LockOutboxJob last claimed the row
    obDelivered,   \* history: id -> a processor was invoked for the row
    obEverDone,    \* history: id -> the row has been COMPLETED at some time
    obRedispatch,  \* history: id -> a processor was invoked after COMPLETED
    obCrashes,     \* number of worker crashes so far
    \* ---- nonce store (key-value keys nonce:<address>:<nonce>) and verifier calls
    nsStore,       \* key -> [val, exp]: value and expiry time of the key
    nsNow,         \* wall clock, in minutes
    vpc,           \* caller -> position in VerifyWalletOwnership
    vreq,          \* caller -> the request being verified
    vres,          \* the last VerifyWalletOwnership return: [caller, key, err]
    nsSuccess,     \* history: key -> successful verifications so far (counted to 2)
    nsReserves,    \* history: key -> successful Reserve calls so far (counted to 2)
    nsOp,          \* history: the verifier step just taken, with its inputs
    \* ---- distributed lock (key-value keys lock:<resource>)
    lkStore,       \* resource -> [val, exp]: owner token and expiry time of the key
    lkNow,         \* wall clock, in lock-TTL ticks
    lkLast,        \* the last lock call that returned: [inst, op, err]
    lkHeldOnce,    \* history: the lock instances whose Acquire has succeeded
    \* ---- unit-of-work runner (WithTransaction, WithTx, WithTxResult)
    uwPc,          \* where the current call is: idle, inFn, fnReturned, returned, panicked
    uwKind,        \* which runner the current call is
    uwCall,        \* number of the current call
    uwTx,          \* the call's transaction: none, open, committed, rolledback
    uwPending,     \* writes made through the transaction-bound handle, not yet committed
    uwDb,          \* committed writes, visible to every reader
    uwFnRes,       \* how fn ended in the current call: none, ok, err, panic
    uwRet,         \* the error value the call returned
    uwCommitTried, \* history: the current call has called Commit
    uwFnFailed,    \* history: the calls whose fn returned an error or panicked
    \* ---- ledger poster (Service.Post)
    lgPc,          \* where the current Post is: idle, inTx, fnReturned
    lgTxId,        \* its transaction-group id
    lgEntries,     \* its entry list (empty between calls)
    lgIdx,         \* the entry the loop is at
    lgBal,         \* committed account balances
    lgRows,        \* committed ledger rows, in insertion order
    lgTxBal,       \* balances as the open transaction sees them
    lgTxRows,      \* ledger rows inserted by the open transaction
    lgRet,         \* what the last Post returned
    lgPosts,       \* number of Post calls so far
    lgDiscarded,   \* history: rows the last Post had inserted when it rolled back
    lgArg,         \* history: the entries passed to the Post call just begun
    \* ---- wallet service (one user's wallets and owner account)
    wlDb,          \* committed wallets rows: wallet -> [is_verified, is_primary, deleted]
    wlAcct,        \* committed accounts.primary_wallet_id of the user's account
    wlPc,          \* request -> the statement it is at
    wlArg,         \* request -> the wallet it is about
    wlDirty,       \* request -> wallets rows its open transaction has written
    wlPend,        \* request -> the uncommitted versions of those rows
    wlAcctPend,    \* request -> its uncommitted primary_wallet_id, or "unset"
    wlLocks,       \* request -> the rows its open transaction has locked
    wlRet,         \* what the call that has just returned returned, until it is delivered
    wlFailed,      \* history: request -> a statement whose error is only logged failed
    wlNonces,      \* the nonce store: key -> [val, exp]
    wlMsg,         \* request -> the message it is verifying ownership with
    \* ---- payments over the account/balance engine and the ledger
    pyAvail,       \* account -> available balance
    pyHeld,        \* account -> held balance
    pyLedger,      \* account -> sums of its ledger rows by entry type
    pyStatus,      \* payment -> its state
    pyAmount,      \* payment -> its amount
    pyFee,         \* payment -> the fee taken at capture
    pyRet,         \* what the last payment operation returned
    \* ---- inventory reservation under the distributed lock
    ivStore,       \* lock keys of the key-value store
    ivNow,         \* the store's clock
    ivInv,         \* the inventories row: quantity, reserved_quantity, version
    ivPc,          \* order -> the statement of Reserve it is at
    ivRead,        \* order -> the row as its repo.Get returned it
    ivRet,         \* order -> what its Reserve returned
    ivFailed,      \* history: a store or database command of a Reserve call failed
    \* ---- order creation under several distributed locks
    ocStore,       \* lock keys of the key-value store
    ocNow,         \* the store's clock
    ocPc,          \* caller -> the statement of Create it is at
    ocItems,       \* caller -> the inventory ids of its request, in request order
    ocIds,         \* caller -> inventoryIDs, the order in which it locks
    ocIdx,         \* caller -> index of the lock it acquires or releases next
    ocRelTo,       \* caller -> number of locks it has to release
    ocRet,         \* caller -> what its last Create returned
    ocCalls,       \* caller -> number of Create calls it has made
    ocRelErr,      \* caller -> a Release of its call failed (history)
    \* ---- order creation: business writes and the outbox event in one transaction
    otPc,          \* request -> the statement of Create it is at
    otPending,     \* request -> the rows its open transaction has written
    otDb,          \* committed rows: <<request, table>>
    otRet,         \* request -> what its Create returned
    otWrote,       \* history: request -> the tables it has written to, in or out of a transaction
    \* ---- wallet registration
    rgRows,        \* the wallets table: sequence of rows [user, address, deleted], the index is the id
    rgPc,          \* registration request -> the statement it is at
    rgAddr,        \* registration request -> the lower-cased address it registers
    rgUser,        \* registration request -> the user it registers for
    rgId,          \* registration request -> the wallet id it works on
    rgRet,         \* registration request -> what its last call returned
    \* ---- versioned inventory deduction
    dqRow,         \* the inventories row: [quantity, version]
    dqPc,          \* mutator -> where its Deduct is
    dqI,           \* mutator -> the loop counter i of its Deduct
    dqVer,         \* mutator -> inv.Version as its Deduct last read it
    dqQty,         \* mutator -> the quantity its Deduct takes
    dqRet,         \* mutator -> what its last Deduct returned
    dqDeducted,    \* history: the sum of the quantities of the Deducts that returned nil
    \* ---- account balance engine
    abRow,         \* the balances row: [available, held, version]
    abPc,          \* caller -> where its mutation is
    abOp,          \* caller -> the operation it runs
    abAmt,         \* caller -> the amount of its operation
    abSnap,        \* caller -> the row as its mutation last read it
    abTries,       \* caller -> the updates of its mutation that affected no row
    abRet,         \* caller -> what its last mutation returned
    \* ---- user aggregate: status and kyc_status
    usRow,         \* the committed users row: status and kyc_status
    usAcct,        \* the committed status of the user's account
    usLock,        \* the request whose open transaction holds the row lock, or none
    usPc,          \* request -> its position in the handler
    usOp,          \* request -> the handler it runs or ran last
    usLost,        \* request -> its UPDATE matched no row (history)
    usRet,         \* request -> what its handler returned
    \* ---- order status machine
    smStatus,      \* order -> its status
    smRet,         \* order -> the result of the last event on it
    \* ---- idempotency cache
    ikRow,         \* the idempotency_keys row of the key, or none
    ikNow,         \* the clock
    ikPc,          \* request -> its position in the flow
    ikHash,        \* request -> the hash of its body
    ikResp,        \* request -> the response it was given
    ikReplayed,    \* request -> its response came from the stored row (history)
    ikEffects,     \* body hash -> times the business logic took effect for it
    ikCleaned      \* the key's row was removed by the cleanup (history)

obVars == <<obRows, obNow, wpc, wcand, wevents, wres,
            obLease, obDelivered, obEverDone, obRedispatch, obCrashes>>

nsVars == <<nsStore, nsNow, vpc, vreq, vres, nsSuccess, nsReserves, nsOp>>

lkVars == <<lkStore, lkNow, lkLast, lkHeldOnce>>

uwVars == <<uwPc, uwKind, uwCall, uwTx, uwPending, uwDb, uwFnRes, uwRet,
            uwCommitTried, uwFnFailed>>

lgVars == <<lgPc, lgTxId, lgEntries, lgIdx, lgBal, lgRows, lgTxBal, lgTxRows,
            lgRet, lgPosts, lgDiscarded, lgArg>>

wlVars == <<wlDb, wlAcct, wlPc, wlArg, wlDirty, wlPend, wlAcctPend, wlLocks, wlRet,
            wlFailed, wlNonces, wlMsg>>

pyVars == <<pyAvail, pyHeld, pyLedger, pyStatus, pyAmount, pyFee, pyRet>>

ivVars == <<ivStore, ivNow, ivInv, ivPc, ivRead, ivRet, ivFailed>>

ocVars == <<ocStore, ocNow, ocPc, ocItems, ocIds, ocIdx, ocRelTo, ocRet, ocCalls,
           ocRelErr>>

otVars == <<otPc, otPending, otDb, otRet, otWrote>>

rgVars == <<rgRows, rgPc, rgAddr, rgUser, rgId, rgRet>>

dqVars == <<dqRow, dqPc, dqI, dqVer, dqQty, dqRet, dqDeducted>>

abVars == <<abRow, abPc, abOp, abAmt, abSnap, abTries, abRet>>

usVars == <<usRow, usAcct, usLock, usPc, usOp, usLost, usRet>>

smVars == <<smStatus, smRet>>

ikVars == <<ikRow, ikNow, ikPc, ikHash, ikResp, ikReplayed, ikEffects, ikCleaned>>

vars == <<obVars, nsVars, lkVars, uwVars, lgVars, wlVars, pyVars, ivVars,
          ocVars, otVars, rgVars, dqVars, abVars, usVars, smVars, ikVars>>

\* what a component's step leaves alone: the other components
ObFrame == UNCHANGED <<nsVars, lkVars, uwVars, lgVars, wlVars, pyVars,
                       ivVars, ocVars, otVars, rgVars, dqVars, abVars,
                       usVars, smVars, ikVars>>
NsFrame == UNCHANGED <<obVars, lkVars, uwVars, lgVars, wlVars, pyVars,
                       ivVars, ocVars, otVars, rgVars, dqVars, abVars,
                       usVars, smVars, ikVars>>
LkFrame == UNCHANGED <<obVars, nsVars, uwVars, lgVars, wlVars, pyVars,
                       ivVars, ocVars, otVars, rgVars, dqVars, abVars,
                       usVars, smVars, ikVars>>
UwFrame == UNCHANGED <<obVars, nsVars, lkVars, lgVars, wlVars, pyVars,
                       ivVars, ocVars, otVars, rgVars, dqVars, abVars,
                       usVars, smVars, ikVars>>
LgFrame == UNCHANGED <<obVars, nsVars, lkVars, uwVars, wlVars, pyVars,
                       ivVars, ocVars, otVars, rgVars, dqVars, abVars,
                       usVars, smVars, ikVars>>
WlFrame == UNCHANGED <<obVars, nsVars, lkVars, uwVars, lgVars, pyVars,
                       ivVars, ocVars, otVars, rgVars, dqVars, abVars,
                       usVars, smVars, ikVars>>
PyFrame == UNCHANGED <<obVars, nsVars, lkVars, uwVars, lgVars, wlVars,
                       ivVars, ocVars, otVars, rgVars, dqVars, abVars,
                       usVars, smVars, ikVars>>
IvFrame == UNCHANGED <<obVars, nsVars, lkVars, uwVars, lgVars, wlVars,
                       pyVars, ocVars, otVars, rgVars, dqVars, abVars,
                       usVars, smVars, ikVars>>
OcFrame == UNCHANGED <<obVars, nsVars, lkVars, uwVars, lgVars, wlVars,
                       pyVars, ivVars, otVars, rgVars, dqVars, abVars,
                       usVars, smVars, ikVars>>
OtFrame == UNCHANGED <<obVars, nsVars, lkVars, uwVars, lgVars, wlVars,
                       pyVars, ivVars, ocVars, rgVars, dqVars, abVars,
                       usVars, smVars, ikVars>>
RgFrame == UNCHANGED <<obVars, nsVars, lkVars, uwVars, lgVars, wlVars,
                       pyVars, ivVars, ocVars, otVars, dqVars, abVars,
                       usVars, smVars, ikVars>>
DqFrame == UNCHANGED <<obVars, nsVars, lkVars, uwVars, lgVars, wlVars,
                       pyVars, ivVars, ocVars, otVars, rgVars, abVars,
                       usVars, smVars, ikVars>>
AbFrame == UNCHANGED <<obVars, nsVars, lkVars, uwVars, lgVars, wlVars,
                       pyVars, ivVars, ocVars, otVars, rgVars, dqVars,
                       usVars, smVars, ikVars>>
UsFrame == UNCHANGED <<obVars, nsVars, lkVars, uwVars, lgVars, wlVars,
                       pyVars, ivVars, ocVars, otVars, rgVars, dqVars,
                       abVars, smVars, ikVars>>
SmFrame == UNCHANGED <<obVars, nsVars, lkVars, uwVars, lgVars, wlVars,
                       pyVars, ivVars, ocVars, otVars, rgVars, dqVars,
                       abVars, usVars, ikVars>>
IkFrame == UNCHANGED <<obVars, nsVars, lkVars, uwVars, lgVars, wlVars,
                       pyVars, ivVars, ocVars, otVars, rgVars, dqVars,
                       abVars, usVars, smVars>>

NULL == 0 - 1

Max(a, b) == IF a >= b THEN a ELSE b

RECURSIVE Pow2(_)
Pow2(n) == IF n <= 0 THEN 1 ELSE 2 * Pow2(n - 1)

(***************************************************************************)
(*                      TRANSACTIONAL OUTBOX + WORKER                      *)
(***************************************************************************)

MaxNow == 3
LockTtl == 2
BatchSize == 2
JobMaxRetries == 2

Workers == {"w1", "w2"}
NoWorker == "none"
JobIds == {1, 2}
\* job types: one with a registered processor, one without
JobTypes == {"registered", "unknown"}
\* the crashes a behaviour may contain, by number
CrashNos == {1}
NumJobs == Cardinality(JobIds)

AbsentRow == [status |-> "ABSENT", job_type |-> "unknown", retry_count |-> 0,
              max_retries |-> 0, next_retry_at |-> NULL, locked_until |-> NULL]

\* INSERT INTO outbox_jobs (..., status, max_retries, next_retry_at)
\* VALUES (..., 'PENDING', ?, NOW()); retry_count defaults to 0, locked_until to NULL
CreateOutboxJob(jobType, maxRetries, now) ==
    [status |-> "PENDING", job_type |-> jobType, retry_count |-> 0,
     max_retries |-> maxRetries, next_retry_at |-> now, locked_until |-> NULL]

\* The WHERE clause of GetPendingOutboxJobs
PendingWhere(row, now) ==
    /\ row.status \in {"PENDING", "FAILED"}
    /\ (row.next_retry_at = NULL \/ row.next_retry_at <= now)
    /\ (row.locked_until = NULL \/ row.locked_until <= now)
    /\ row.retry_count < row.max_retries

RECURSIVE FirstN(_, _, _)
\* the ids of S from id `from` on, ascending, at most n of them
FirstN(S, from, n) ==
    IF n = 0 \/ from > NumJobs THEN <<>>
    ELSE IF from \in S THEN <<from>> \o FirstN(S, from + 1, n - 1)
    ELSE FirstN(S, from + 1, n)

\* SELECT * FROM outbox_jobs WHERE ... ORDER BY created_at LIMIT ?
\* (rows are created in id order, so created_at order is id order); each
\* returned event is the row as read by this statement
GetPendingOutboxJobs(rows, now, limit) ==
    LET ids == FirstN({i \in JobIds : PendingWhere(rows[i], now)}, 1, limit)
    IN  [k \in 1..Len(ids) |->
            [id |-> ids[k], job_type |-> rows[ids[k]].job_type,
             retry_count |-> rows[ids[k]].retry_count,
             max_retries |-> rows[ids[k]].max_retries]]

\* The WHERE clause of LockOutboxJob (besides id = ?)
LockWhere(row, now) ==
    /\ row.status # "ABSENT"
    /\ (row.locked_until = NULL \/ row.locked_until <= now)

\* UPDATE outbox_jobs SET status = 'PROCESSING', locked_until = ? WHERE id = ? AND ...
LockOutboxJob(row, until) ==
    [row EXCEPT !.status = "PROCESSING", !.locked_until = until]

\* UPDATE outbox_jobs SET status = 'COMPLETED', locked_until = NULL WHERE id = ?
CompleteOutboxJob(row) ==
    [row EXCEPT !.status = "COMPLETED", !.locked_until = NULL]

\* UPDATE outbox_jobs SET status = CASE ..., retry_count = retry_count + 1,
\*        next_retry_at = ?, error_message = ?, locked_until = NULL WHERE id = ?
FailOutboxJob(row, nextRetry) ==
    [row EXCEPT !.status = IF row.retry_count >= row.max_retries - 1
                           THEN "DEAD_LETTER" ELSE "FAILED",
                !.retry_count = row.retry_count + 1,
                !.next_retry_at = nextRetry,
                !.locked_until = NULL]

\* Repository.MarkDeadLetter: the event is stored as dead with the retry
\* count the worker holds for it (no query of the repository sets it)
MarkDeadLetter(row, retryCount) ==
    [row EXCEPT !.status = "DEAD_LETTER", !.retry_count = retryCount,
                !.locked_until = NULL]

\* time.Duration(1<<retryCount) * time.Second
calculateBackoff(retryCount) == Pow2(retryCount)

\* Worker.handleFailure: event.RetryCount++ on the worker's copy, then
\* MarkDeadLetter or MarkFailed(now + backoff)
handleFailure(row, ev, now) ==
    LET rc == ev.retry_count + 1
    IN  IF rc >= ev.max_retries
        THEN MarkDeadLetter(row, rc)
        ELSE FailOutboxJob(row, now + calculateBackoff(rc))

ObInit ==
    /\ obRows = [i \in JobIds |-> AbsentRow]
    /\ obNow = 0
    /\ wpc = [w \in Workers |-> "idle"]
    /\ wcand = [w \in Workers |-> <<>>]
    /\ wevents = [w \in Workers |-> <<>>]
    /\ wres = [w \in Workers |-> "none"]
    /\ obLease = [i \in JobIds |-> NoWorker]
    /\ obDelivered = [i \in JobIds |-> FALSE]
    /\ obEverDone = [i \in JobIds |-> FALSE]
    /\ obRedispatch = [i \in JobIds |-> FALSE]
    /\ obCrashes = 0

\* A producer's unit of work commits an event: the next free id is inserted
Enqueue ==
    /\ \E i \in JobIds :
         /\ obRows[i].status = "ABSENT"
         /\ \A j \in JobIds : j < i => obRows[j].status # "ABSENT"
         /\ \E t \in JobTypes :
              obRows' = [obRows EXCEPT ![i] = CreateOutboxJob(t, JobMaxRetries, obNow)]
    /\ UNCHANGED <<obNow, wpc, wcand, wevents, wres,
                   obLease, obDelivered, obEverDone, obRedispatch, obCrashes>>

\* The database clock advances
ObTick ==
    /\ obNow < MaxNow
    /\ obNow' = obNow + 1
    /\ UNCHANGED <<obRows, wpc, wcand, wevents, wres,
                   obLease, obDelivered, obEverDone, obRedispatch, obCrashes>>

\* Worker.Run tick -> processBatch -> FetchAndLock, first statement: the select
Poll(w) ==
    /\ wpc[w] = "idle"
    /\ LET got == GetPendingOutboxJobs(obRows, obNow, BatchSize)
       IN  /\ Len(got) > 0
           /\ wcand' = [wcand EXCEPT ![w] = got]
    /\ wpc' = [wpc EXCEPT ![w] = "lock"]
    /\ UNCHANGED <<obRows, obNow, wevents, wres,
                   obLease, obDelivered, obEverDone, obRedispatch, obCrashes>>

\* where the worker goes when it has no more candidates to lock / events to report
AfterLock(events) == IF Len(events) > 0 THEN "process" ELSE "idle"

\* FetchAndLock, one LockOutboxJob per selected row; the row is kept as a
\* leased event when the update affected it
Lock(w) ==
    /\ wpc[w] = "lock"
    /\ Len(wcand[w]) > 0
    /\ LET ev == Head(wcand[w])
           affected == LockWhere(obRows[ev.id], obNow)
           evs == IF affected THEN Append(wevents[w], ev) ELSE wevents[w]
       IN  /\ obRows' = IF affected
                        THEN [obRows EXCEPT ![ev.id] = LockOutboxJob(@, obNow + LockTtl)]
                        ELSE obRows
           /\ obLease' = IF affected THEN [obLease EXCEPT ![ev.id] = w] ELSE obLease
           /\ wevents' = [wevents EXCEPT ![w] = evs]
           /\ wcand' = [wcand EXCEPT ![w] = Tail(@)]
           /\ wpc' = [wpc EXCEPT ![w] =
                        IF Len(wcand[w]) > 1 THEN "lock" ELSE AfterLock(evs)]
    /\ UNCHANGED <<obNow, wres, obDelivered, obEverDone, obRedispatch, obCrashes>>

\* Worker.processEvent: the processor lookup by event type, then
\* processor.Process(ctx, event), which returns nil or an error
Process(w) ==
    /\ wpc[w] = "process"
    /\ LET ev == Head(wevents[w])
       IN  IF ev.job_type = "unknown"
           THEN /\ wres' = [wres EXCEPT ![w] = "unknown"]
                /\ UNCHANGED <<obDelivered, obRedispatch>>
           ELSE /\ obDelivered' = [obDelivered EXCEPT ![ev.id] = TRUE]
                /\ obRedispatch' = [obRedispatch EXCEPT ![ev.id] = @ \/ obEverDone[ev.id]]
                /\ \E outcome \in {"ok", "fail"} : wres' = [wres EXCEPT ![w] = outcome]
    /\ wpc' = [wpc EXCEPT ![w] = "report"]
    /\ UNCHANGED <<obRows, obNow, wcand, wevents, obLease, obEverDone, obCrashes>>

\* Worker.processEvent: MarkDeadLetter for an unknown event type,
\* MarkCompleted on success, handleFailure on error
Report(w) ==
    /\ wpc[w] = "report"
    /\ LET ev == Head(wevents[w])
       IN  /\ obRows' = [obRows EXCEPT ![ev.id] =
                            IF wres[w] = "unknown" THEN MarkDeadLetter(@, ev.retry_count)
                            ELSE IF wres[w] = "ok" THEN CompleteOutboxJob(@)
                            ELSE handleFailure(@, ev, obNow)]
           /\ obEverDone' = [obEverDone EXCEPT ![ev.id] = @ \/ wres[w] = "ok"]
           /\ obLease' = [obLease EXCEPT ![ev.id] = NoWorker]
    /\ wevents' = [wevents EXCEPT ![w] = Tail(@)]
    /\ wres' = [wres EXCEPT ![w] = "none"]
    /\ wpc' = [wpc EXCEPT ![w] = AfterLock(Tail(wevents[w]))]
    /\ UNCHANGED <<obNow, wcand, obDelivered, obRedispatch, obCrashes>>

\* The worker process dies anywhere in a batch and is restarted: what it held
\* in memory is lost, the rows stay as they are.  Only finitely many crashes
\* happen (CrashNos), so that no behaviour is a crash at every batch
Crash(w) ==
    /\ wpc[w] # "idle"
    /\ obCrashes + 1 \in CrashNos
    /\ obCrashes' = obCrashes + 1
    /\ wpc' = [wpc EXCEPT ![w] = "idle"]
    /\ wcand' = [wcand EXCEPT ![w] = <<>>]
    /\ wevents' = [wevents EXCEPT ![w] = <<>>]
    /\ wres' = [wres EXCEPT ![w] = "none"]
    /\ UNCHANGED <<obRows, obNow, obLease, obDelivered, obEverDone, obRedispatch>>

ObNext ==
    \/ Enqueue /\ ObFrame
    \/ ObTick /\ ObFrame
    \/ \E w \in Workers : Poll(w) /\ ObFrame
    \/ \E w \in Workers : Lock(w) /\ ObFrame
    \/ \E w \in Workers : Process(w) /\ ObFrame
    \/ \E w \in Workers : Report(w) /\ ObFrame
    \/ \E w \in Workers : Crash(w) /\ ObFrame

(***************************************************************************)
(* Outbox claims                                                           *)
(***************************************************************************)

\* worker w holds the lease on row i: its LockOutboxJob claimed the row last,
\* the row is still PROCESSING and locked_until lies in the future
HoldsLease(w, i) ==
    /\ obLease[i] = w
    /\ obRows[i].status = "PROCESSING"
    /\ obRows[i].locked_until # NULL
    /\ obRows[i].locked_until > obNow

\* worker w reports (MarkCompleted / handleFailure) on row i in this step
ReportsOn(w, i) ==
    /\ wpc[w] = "report"
    /\ Head(wevents[w]).id = i
    /\ wevents'[w] = Tail(wevents[w])

\* C3: once a row has reached COMPLETED no processor is invoked for it again
C3_NoDispatchAfterCompleted == \A i \in JobIds : ~obRedispatch[i]

\* the lease on row i runs past the last instant of the modelled clock, so
\* its expiry lies outside the behaviours explored
LeaseOutlivesClock(i) ==
    /\ obRows[i].locked_until # NULL
    /\ obRows[i].locked_until > MaxNow

\* C8: every event enqueued as PENDING, of a type that has a processor, is
\* eventually handed to the processor, also when the worker that leased it
\* crashes before reporting (a lease that cannot expire within the modelled
\* clock is not counted against the claim)
C8_PendingEventuallyDelivered ==
    \A i \in JobIds :
        (obRows[i].status = "PENDING" /\ obRows[i].job_type = "registered")
            ~> (obDelivered[i] \/ LeaseOutlivesClock(i))

\* C9: a row left in PROCESSING whose lease has expired is eligible again:
\* the poll's select returns it
C9_ExpiredLeaseEligible ==
    \A i \in JobIds :
        (/\ obRows[i].status = "PROCESSING"
         /\ obRows[i].locked_until # NULL
         /\ obRows[i].locked_until <= obNow)
        => \E k \in DOMAIN GetPendingOutboxJobs(obRows, obNow, NumJobs) :
              GetPendingOutboxJobs(obRows, obNow, NumJobs)[k].id = i

\* C10: a completion or failure report by a worker that does not hold the
\* lease on the row leaves the row unchanged
C10_OnlyLeaseholderReports ==
    [][\A w \in Workers : \A i \in JobIds :
          (ReportsOn(w, i) /\ ~HoldsLease(w, i)) => obRows'[i] = obRows[i]]_vars

\* worker w has row i in hand as a leased event and its processor call for
\* the row is under way
Processing(w, i) ==
    /\ wpc[w] = "process"
    /\ Len(wevents[w]) > 0
    /\ Head(wevents[w]).id = i

\* C11: a row is claimed by at most one worker at a time: no two workers
\* have the same row in hand and process it at the same time
C11_OneClaimantAtATime ==
    \A i \in JobIds : \A w1 \in Workers : \A w2 \in Workers :
        (Processing(w1, i) /\ Processing(w2, i)) => w1 = w2

\* C23: the retry count of a row never exceeds its max_retries
C23_RetryCountBounded ==
    \A i \in JobIds : obRows[i].retry_count <= obRows[i].max_retries

\* worker w reports the failure of the event it has in hand in this step,
\* and the event's incremented retry count stays below max_retries
ReportsRetry(w) ==
    /\ wpc[w] = "report"
    /\ wres[w] = "fail"
    /\ wevents'[w] = Tail(wevents[w])
    /\ obCrashes' = obCrashes
    /\ Head(wevents[w]).retry_count + 1 < Head(wevents[w]).max_retries

\* C24: after the n-th failure of an event (n its retry count after the
\* increment, n < max_retries) next_retry_at is now + 2^(n-1) seconds
C24_BackoffDoubles ==
    [][\A w \in Workers :
          ReportsRetry(w) =>
              LET ev == Head(wevents[w])
              IN  obRows'[ev.id].next_retry_at
                      = obNow + Pow2((ev.retry_count + 1) - 1)]_vars

(***************************************************************************)
(*                  NONCE STORE + SIGNATURE VERIFIER                       *)
(***************************************************************************)

DefaultTTL == 5
DefaultTimestampTolerance == 5
MaxNsNow == 6

Callers == {"c1", "c2"}
Addresses == {"0xab", "0xAB", "bad"}
Nonces == {"n1"}
\* the signatures a request may carry: signed by the wallet's key, signed by
\* another key, not 65 bytes long, 65 bytes that recover no public key
Signatures == {"valid", "mismatch", "badlen", "norecover"}
\* message.Wallet: an address, or a string that is none
MessageWallets == {"0xab", "bad"}
\* config.VerifyingContract of the EIP712Domain built by NewEthVerifier
VerifyingContract == "0xab"

\* strings.ToLower on the addresses of the model
ToLower(a) == IF a = "0xAB" THEN "0xab" ELSE a

\* common.IsHexAddress
IsHexAddress(a) == a \in {"0xab", "0xAB"}

\* fmt.Sprintf("%s:%s:%s", keyPrefix, strings.ToLower(address), nonce)
buildKey(address, nonce) == <<"nonce", ToLower(address), nonce>>

NsKeys == {buildKey(a, n) : a \in {x \in Addresses : IsHexAddress(x)}, n \in Nonces}

NoEntry == [val |-> "none", exp |-> 0]
NoReq == [address |-> "bad", wallet |-> "bad", nonce |-> "n1", sig |-> "badlen"]
NoKey == <<"nonce", "", "">>

\* what a VerifyWalletOwnership call of caller c on key k returned
Returned(c, k, err) == [caller |-> c, key |-> k, err |-> err]

\* the record of a verifier step: the step, its caller, the address and nonce
\* of its request (message.Wallet and the signature are left out of the
\* record), the request's timestamp as an offset from the clock, and whether
\* the store executed the command the step sent to it (TRUE when it sent none)
Op(step, c, req, offset, storeOk) ==
    [step |-> step, caller |-> c, req |-> req, offset |-> offset, storeOk |-> storeOk]
NoOp == Op("none", "none", NoReq, 0, TRUE)

\* a key is present until its TTL has elapsed
Present(store, k, now) == store[k].val # "none" /\ now < store[k].exp

\* a SetNX that sets the key whether or not it is present
SetNXAlways(store, k, now) == TRUE

\* SetNX(key, "reserved", ttl): TRUE when the key was set
SetNXOk(store, k, now) == ~Present(store, k, now)

\* RedisStore.Reserve: the store after the call
Reserve(store, k, now) ==
    IF SetNXOk(store, k, now)
    THEN [store EXCEPT ![k] = [val |-> "reserved", exp |-> now + DefaultTTL]]
    ELSE store

\* RedisStore.MarkUsed: Set(key, "used", ttl), whatever the key held
MarkUsed(store, k, now) ==
    [store EXCEPT ![k] = [val |-> "used", exp |-> now + DefaultTTL]]

\* RedisStore.Release: Del(key), whatever the key held
Release(store, k) == [store EXCEPT ![k] = NoEntry]

\* a timestamp check that accepts every timestamp
validateTimestampAny(timestamp, now) == "ok"

\* EthVerifier.validateTimestamp
validateTimestamp(timestamp, now) ==
    IF timestamp < now - DefaultTimestampTolerance THEN "ErrSignatureExpired"
    ELSE IF timestamp > now + DefaultTimestampTolerance THEN "ErrSignatureFuture"
    ELSE "ok"

\* the errors VerifySignatureOnly makes with fmt.Errorf, named by their text
FailedToHashDomain == "failed to hash domain"
FailedToHashMessage == "failed to hash message"
FailedToRecover == "failed to recover public key"

\* EthVerifier.VerifySignatureOnly: (valid, err), in the order of the code:
\* the length of the signature, HashStruct of the domain and of the message
\* (which encodes verifyingContract and message.Wallet as addresses),
\* SigToPub, the comparison of the recovered address
VerifySignatureOnly(wallet, sig) ==
    IF sig = "badlen" THEN [valid |-> FALSE, err |-> "ErrInvalidSignatureLen"]
    ELSE IF ~IsHexAddress(VerifyingContract)
    THEN [valid |-> FALSE, err |-> FailedToHashDomain]
    ELSE IF ~IsHexAddress(wallet)
    THEN [valid |-> FALSE, err |-> FailedToHashMessage]
    ELSE IF sig = "norecover" THEN [valid |-> FALSE, err |-> FailedToRecover]
    ELSE IF sig = "mismatch" THEN [valid |-> FALSE, err |-> "nil"]
    ELSE [valid |-> TRUE, err |-> "nil"]

\* the timestamps a client may send at time `now`: the edges of the
\* tolerance window and just outside it
Timestamps(now) ==
    {now - DefaultTimestampTolerance - 1, now - DefaultTimestampTolerance,
     now + DefaultTimestampTolerance, now + DefaultTimestampTolerance + 1}

\* message.Wallet and the signature of the requests with the given address
\* and timestamp: when the call gets past the address and timestamp checks,
\* every signature with a wallet that is an address, and a well-formed and
\* an ill-sized signature with a wallet that is none; one pair when the
\* call returns before it reads them
SignedMessages(address, timestamp) ==
    IF IsHexAddress(address) /\ validateTimestamp(timestamp, nsNow) = "ok"
    THEN {m \in MessageWallets \X Signatures :
             IsHexAddress(m[1]) \/ m[2] \in {"valid", "badlen"}}
    ELSE {<<NoReq.wallet, NoReq.sig>>}

NsInit ==
    /\ nsStore = [k \in NsKeys |-> NoEntry]
    /\ nsNow = 0
    /\ vpc = [c \in Callers |-> "idle"]
    /\ vreq = [c \in Callers |-> NoReq]
    /\ vres = Returned("none", NoKey, "none")
    /\ nsSuccess = [k \in NsKeys |-> 0]
    /\ nsReserves = [k \in NsKeys |-> 0]
    /\ nsOp = NoOp

\* Time passes, by a minute or by a whole TTL; keys whose TTL has elapsed are gone
NsTick ==
    /\ \E d \in {1, DefaultTTL} :
         /\ nsNow + d <= MaxNsNow
         /\ nsNow' = nsNow + d
         /\ nsStore' = [k \in NsKeys |->
                          IF Present(nsStore, k, nsNow + d) THEN nsStore[k] ELSE NoEntry]
    /\ nsOp' = NoOp
    /\ UNCHANGED <<vpc, vreq, vres, nsSuccess, nsReserves>>

\* VerifyWalletOwnership steps 1-3: address syntax, timestamp, Reserve
VerifyBegin(c, req, timestamp, redisOk) ==
    /\ vpc[c] = "idle"
    /\ LET k == buildKey(req.address, req.nonce)
           ts == validateTimestamp(timestamp, nsNow)
       IN  IF ~IsHexAddress(req.address)
           THEN /\ vres' = Returned(c, NoKey, "ErrInvalidAddress")
                /\ UNCHANGED <<nsStore, vpc, vreq, nsReserves>>
           ELSE IF ts # "ok"
           THEN /\ vres' = Returned(c, k, ts)
                /\ UNCHANGED <<nsStore, vpc, vreq, nsReserves>>
           ELSE IF ~redisOk
           THEN /\ vres' = Returned(c, k, "StoreError")
                /\ UNCHANGED <<nsStore, vpc, vreq, nsReserves>>
           ELSE IF ~SetNXOk(nsStore, k, nsNow)
           THEN /\ vres' = Returned(c, k, "ErrNonceAlreadyUsed")
                /\ UNCHANGED <<nsStore, vpc, vreq, nsReserves>>
           ELSE /\ nsStore' = Reserve(nsStore, k, nsNow)
                /\ vpc' = [vpc EXCEPT ![c] = "reserved"]
                /\ vreq' = [vreq EXCEPT ![c] = req]
                /\ nsReserves' = [nsReserves EXCEPT ![k] = IF @ < 2 THEN @ + 1 ELSE @]
                /\ UNCHANGED vres
    /\ nsOp' = Op("begin", c, [req EXCEPT !.sig = NoReq.sig, !.wallet = NoReq.wallet],
                  timestamp - nsNow,
                  redisOk \/ ~IsHexAddress(req.address)
                          \/ validateTimestamp(timestamp, nsNow) # "ok")
    /\ UNCHANGED <<nsNow, nsSuccess>>

\* VerifyWalletOwnership steps 4-5: the signature check, then Release on
\* failure or MarkUsed on success; a failing store command is only logged
VerifyEnd(c, redisOk) ==
    /\ vpc[c] = "reserved"
    /\ LET req == vreq[c]
           k == buildKey(req.address, req.nonce)
           r == VerifySignatureOnly(req.wallet, req.sig)
       IN  IF r.err # "nil" \/ ~r.valid
           THEN /\ nsStore' = IF redisOk THEN Release(nsStore, k) ELSE nsStore
                /\ vres' = Returned(c, k, IF r.err # "nil" THEN r.err
                                          ELSE "ErrAddressMismatch")
                /\ UNCHANGED nsSuccess
           ELSE /\ nsStore' = IF redisOk THEN MarkUsed(nsStore, k, nsNow) ELSE nsStore
                /\ vres' = Returned(c, k, "nil")
                /\ nsSuccess' = [nsSuccess EXCEPT ![k] = IF @ < 2 THEN @ + 1 ELSE @]
    /\ vpc' = [vpc EXCEPT ![c] = "idle"]
    /\ vreq' = [vreq EXCEPT ![c] = NoReq]
    /\ nsOp' = Op("end", c, [vreq[c] EXCEPT !.sig = NoReq.sig, !.wallet = NoReq.wallet],
                  0, redisOk)
    /\ UNCHANGED <<nsNow, nsReserves>>

NsNext ==
    \/ NsTick /\ NsFrame
    \/ \E c \in Callers, a \in Addresses, n \in Nonces, ok \in BOOLEAN :
          \E t \in Timestamps(nsNow) :
             \E m \in SignedMessages(a, t) :
                VerifyBegin(c, [address |-> a, wallet |-> m[1], nonce |-> n,
                                sig |-> m[2]], t, ok)
                /\ NsFrame
    \/ \E c \in Callers, ok \in BOOLEAN : VerifyEnd(c, ok) /\ NsFrame

(***************************************************************************)
(* Nonce claims                                                            *)
(***************************************************************************)

\* C2: after a successful verification of an (address, nonce) pair no later
\* verification of the same pair succeeds: the nonce is used at most once
C2_NonceUsedAtMostOnce == \A k \in NsKeys : nsSuccess[k] <= 1

\* this step is the first part of a VerifyWalletOwnership call (up to Reserve)
BeginStep == nsOp' # nsOp /\ nsOp'.step = "begin"

\* this step is the second part of caller c's call (from the signature check on)
EndStep(c) == vpc[c] = "reserved" /\ vpc'[c] = "idle"

\* the key of the request of the step just taken
OpKey(op) == buildKey(op.req.address, op.req.nonce)

\* C12 as stated: of all the Reserve calls on one (address, nonce) pair at
\* most one succeeds, whatever store operations lie between them
C12_ReserveSucceedsOnce == \A k \in NsKeys : nsReserves[k] <= 1

\* C12 amended: a Reserve on a pair whose key is present (reserved or used,
\* neither released nor expired) never succeeds; when the store executes it,
\* it returns ErrNonceAlreadyUsed and leaves the store as it was
C12_ReserveFailsWhilePresent ==
    [][/\ \A c \in Callers :
            (vpc[c] = "idle" /\ vpc'[c] = "reserved")
            => ~Present(nsStore, buildKey(vreq'[c].address, vreq'[c].nonce), nsNow)
       /\ (/\ BeginStep
           /\ IsHexAddress(nsOp'.req.address)
           /\ nsOp'.offset >= 0 - DefaultTimestampTolerance
           /\ nsOp'.offset <= DefaultTimestampTolerance
           /\ nsOp'.storeOk
           /\ Present(nsStore, OpKey(nsOp'), nsNow))
          => /\ vres' = Returned(nsOp'.caller, OpKey(nsOp'), "ErrNonceAlreadyUsed")
             /\ nsStore' = nsStore
             /\ vpc' = vpc]_vars

\* a Reserve was rejected on a pair that had been reserved before and whose
\* key is still present
C12_Witness ==
    /\ nsOp.step = "begin"
    /\ IsHexAddress(nsOp.req.address)
    /\ vres = Returned(nsOp.caller, OpKey(nsOp), "ErrNonceAlreadyUsed")
    /\ nsReserves[OpKey(nsOp)] = 1
    /\ Present(nsStore, OpKey(nsOp), nsNow)

\* the error of a call that fails at the signature check: the error of
\* VerifySignatureOnly, or ErrAddressMismatch when another key signed
SignatureError(req) ==
    IF req.sig = "badlen" THEN "ErrInvalidSignatureLen"
    ELSE IF ~IsHexAddress(req.wallet) THEN FailedToHashMessage
    ELSE IF req.sig = "norecover" THEN FailedToRecover
    ELSE "ErrAddressMismatch"

\* C13: when a call fails at the signature check after its Reserve (signer
\* mismatch or recovery failure), the key is gone when the call returns, so
\* that a Reserve of the same pair succeeds again, and the call returns the
\* signature error
C13_ReleasedOnSignatureFailure ==
    [][\A c \in Callers :
          (EndStep(c) /\ (vreq[c].sig # "valid" \/ ~IsHexAddress(vreq[c].wallet)))
          => /\ SetNXOk(nsStore', buildKey(vreq[c].address, vreq[c].nonce), nsNow')
             /\ vres'.caller = c
             /\ vres'.err = SignatureError(vreq[c])]_vars

\* the timestamp of a request lies outside the tolerance around the clock
OutsideTolerance(offset) ==
    \/ offset < 0 - DefaultTimestampTolerance
    \/ offset > DefaultTimestampTolerance

\* C14: a request whose timestamp lies outside the tolerance fails and
\* leaves the nonce store unchanged, nothing is reserved; with a well-formed
\* address the error is ErrSignatureExpired or ErrSignatureFuture (a
\* malformed address is rejected by the earlier address check)
C14_StaleTimestampReservesNothing ==
    [][(BeginStep /\ OutsideTolerance(nsOp'.offset))
       => /\ nsStore' = nsStore
          /\ vpc' = vpc
          /\ nsReserves' = nsReserves
          /\ vres'.caller = nsOp'.caller
          /\ vres'.err = IF ~IsHexAddress(nsOp'.req.address) THEN "ErrInvalidAddress"
                          ELSE IF nsOp'.offset < 0 THEN "ErrSignatureExpired"
                          ELSE "ErrSignatureFuture"]_vars

\* a request with a well-formed address and a timestamp older than the
\* tolerance was rejected as expired while the pair's key was free
C14_Witness ==
    /\ nsOp.step = "begin"
    /\ IsHexAddress(nsOp.req.address)
    /\ nsOp.offset < 0 - DefaultTimestampTolerance
    /\ vres = Returned(nsOp.caller, OpKey(nsOp), "ErrSignatureExpired")
    /\ ~Present(nsStore, OpKey(nsOp), nsNow)


(***************************************************************************)
(*                          DISTRIBUTED LOCK                               *)
(***************************************************************************)

MaxLkNow == 3
MaxLockTtl == 2

Resources == {"inventory:1", "inventory:2"}
Holders == {"h1", "h2"}

\* NewLock: one DistributedLock per caller and resource, each with its own
\* uuid as owner token, on the key "lock:" + resource
LockInsts == {[key |-> r, owner |-> <<h, r>>] : h \in Holders, r \in Resources}
NoInst == [key |-> "", owner |-> <<>>]
LockTtls == 1..MaxLockTtl

\* what a lock call returned
LockReturned(l, op, err) == [inst |-> l, op |-> op, err |-> err]

\* redis.call("get", KEYS[1]) == ARGV[1]
OwnedBy(store, l, now) == Present(store, l.key, now) /\ store[l.key].val = l.owner

\* an acquire that sets the key whether or not it is present
AcquireOverwrite(store, l, ttl, now) ==
    [store |-> [store EXCEPT ![l.key] = [val |-> l.owner, exp |-> now + ttl]],
     err |-> "nil"]

\* DistributedLock.Acquire: SetNX(key, owner, ttl)
Acquire(store, l, ttl, now) ==
    IF SetNXOk(store, l.key, now)
    THEN [store |-> [store EXCEPT ![l.key] = [val |-> l.owner, exp |-> now + ttl]],
          err |-> "nil"]
    ELSE [store |-> store, err |-> "ErrLockNotAcquired"]

\* the release script with the owner check left out: an unconditional del
LockReleaseAlways(store, l, now) ==
    IF Present(store, l.key, now)
    THEN [store |-> [store EXCEPT ![l.key] = NoEntry], err |-> "nil"]
    ELSE [store |-> store, err |-> "ErrLockNotHeld"]

\* DistributedLock.Release: the check-and-delete script, run atomically;
\* result 0 is ErrLockNotHeld
LockRelease(store, l, now) ==
    IF OwnedBy(store, l, now)
    THEN [store |-> [store EXCEPT ![l.key] = NoEntry], err |-> "nil"]
    ELSE [store |-> store, err |-> "ErrLockNotHeld"]

\* the extend script with the owner check left out
ExtendAlways(store, l, ttl, now) ==
    IF Present(store, l.key, now)
    THEN [store |-> [store EXCEPT ![l.key].exp = now + ttl], err |-> "nil"]
    ELSE [store |-> store, err |-> "ErrLockNotHeld"]

\* DistributedLock.Extend: the check-and-pexpire script
Extend(store, l, ttl, now) ==
    IF OwnedBy(store, l, now)
    THEN [store |-> [store EXCEPT ![l.key].exp = now + ttl], err |-> "nil"]
    ELSE [store |-> store, err |-> "ErrLockNotHeld"]

LkInit ==
    /\ lkStore = [r \in Resources |-> NoEntry]
    /\ lkNow = 0
    /\ lkLast = LockReturned(NoInst, "none", "nil")
    /\ lkHeldOnce = {}

\* Time passes; keys whose TTL has elapsed are gone
LkTick ==
    /\ lkNow < MaxLkNow
    /\ lkNow' = lkNow + 1
    /\ lkStore' = [r \in Resources |->
                     IF Present(lkStore, r, lkNow + 1) THEN lkStore[r] ELSE NoEntry]
    /\ UNCHANGED <<lkLast, lkHeldOnce>>

\* a command the key-value store did not run: the caller gets the error
LkRedisError(l, op) ==
    /\ lkLast' = LockReturned(l, op, "RedisError")
    /\ UNCHANGED <<lkStore, lkNow, lkHeldOnce>>

DoAcquire(l, ttl) ==
    /\ LET r == Acquire(lkStore, l, ttl, lkNow)
       IN  /\ lkStore' = r.store
           /\ lkLast' = LockReturned(l, "Acquire", r.err)
           /\ lkHeldOnce' = IF r.err = "nil" THEN lkHeldOnce \cup {l} ELSE lkHeldOnce
    /\ UNCHANGED lkNow

DoRelease(l) ==
    /\ LET r == LockRelease(lkStore, l, lkNow)
       IN  /\ lkStore' = r.store
           /\ lkLast' = LockReturned(l, "Release", r.err)
    /\ UNCHANGED <<lkNow, lkHeldOnce>>

DoExtend(l, ttl) ==
    /\ LET r == Extend(lkStore, l, ttl, lkNow)
       IN  /\ lkStore' = r.store
           /\ lkLast' = LockReturned(l, "Extend", r.err)
    /\ UNCHANGED <<lkNow, lkHeldOnce>>

LkNext ==
    \/ LkTick /\ LkFrame
    \/ \E l \in LockInsts, t \in LockTtls : DoAcquire(l, t) /\ LkFrame
    \/ \E l \in LockInsts : DoRelease(l) /\ LkFrame
    \/ \E l \in LockInsts, t \in LockTtls : DoExtend(l, t) /\ LkFrame
    \/ \E l \in LockInsts, op \in {"Acquire", "Release", "Extend"} :
          LkRedisError(l, op) /\ LkFrame

(***************************************************************************)
(* Lock claims                                                             *)
(***************************************************************************)

\* this step is a Release call of instance l that the store ran
ReleaseStep(l) ==
    /\ lkLast' = LockReturned(l, "Release", lkLast'.err)
    /\ lkLast'.err # "RedisError"
    /\ lkNow' = lkNow
    /\ (lkLast' # lkLast \/ lkStore' # lkStore)

\* C5: release deletes the key only when it still holds the caller's own
\* token; any other release returns ErrLockNotHeld and leaves the key as it is
C5_ReleaseOnlyByHolder ==
    [][\A l \in LockInsts :
          ReleaseStep(l) =>
             IF OwnedBy(lkStore, l, lkNow)
             THEN lkLast'.err = "nil" /\ ~Present(lkStore', l.key, lkNow)
             ELSE lkLast'.err = "ErrLockNotHeld" /\ lkStore' = lkStore]_vars

\* this step is a call `op` of instance l that the store ran
LockStep(l, op) ==
    /\ lkLast' = LockReturned(l, op, lkLast'.err)
    /\ lkLast'.err # "RedisError"
    /\ lkNow' = lkNow
    /\ (lkLast' # lkLast \/ lkStore' # lkStore)

\* C15: acquire sets the key to the caller's own token only when the key is
\* absent, and then succeeds; while the key is present every acquire returns
\* ErrLockNotAcquired and leaves the key as it is, so of the callers that
\* contend for a free resource exactly the first succeeds
C15_AcquireOnlyIfAbsent ==
    [][\A l \in LockInsts :
          LockStep(l, "Acquire") =>
             IF Present(lkStore, l.key, lkNow)
             THEN lkLast'.err = "ErrLockNotAcquired" /\ lkStore' = lkStore
             ELSE /\ lkLast'.err = "nil"
                  /\ lkStore'[l.key].val = l.owner
                  /\ (lkStore'[l.key].exp - lkNow) \in LockTtls
                  /\ \A r \in Resources \ {l.key} : lkStore'[r] = lkStore[r]]_vars

\* two callers contended for one resource: the first holds the key, the
\* second has just been refused
C15_Witness ==
    /\ lkLast.op = "Acquire"
    /\ lkLast.err = "ErrLockNotAcquired"
    /\ Present(lkStore, lkLast.inst.key, lkNow)
    /\ lkStore[lkLast.inst.key].val # lkLast.inst.owner
    /\ lkLast.inst \notin lkHeldOnce

\* C18: extend resets the key's TTL only when the key still holds the
\* caller's own token; any other extend returns ErrLockNotHeld and leaves
\* value and TTL of every key as they are
C18_ExtendOnlyByHolder ==
    [][\A l \in LockInsts :
          LockStep(l, "Extend") =>
             IF OwnedBy(lkStore, l, lkNow)
             THEN /\ lkLast'.err = "nil"
                  /\ lkStore'[l.key].val = l.owner
                  /\ (lkStore'[l.key].exp - lkNow) \in LockTtls
                  /\ \A r \in Resources \ {l.key} : lkStore'[r] = lkStore[r]
             ELSE lkLast'.err = "ErrLockNotHeld" /\ lkStore' = lkStore]_vars

\* a former holder, whose TTL expired and whose resource another owner
\* acquired, has called extend and got ErrLockNotHeld
C18_Witness ==
    /\ lkLast.op = "Extend"
    /\ lkLast.err = "ErrLockNotHeld"
    /\ lkLast.inst \in lkHeldOnce
    /\ Present(lkStore, lkLast.inst.key, lkNow)
    /\ lkStore[lkLast.inst.key].val # lkLast.inst.owner

\* C5 witness: a former holder, whose TTL expired and whose resource another
\* owner re-acquired, has called release and got ErrLockNotHeld
C5_Witness ==
    /\ lkLast.op = "Release"
    /\ lkLast.err = "ErrLockNotHeld"
    /\ lkLast.inst \in lkHeldOnce
    /\ Present(lkStore, lkLast.inst.key, lkNow)
    /\ lkStore[lkLast.inst.key].val # lkLast.inst.owner


(***************************************************************************)
(*                         UNIT-OF-WORK RUNNER                             *)
(***************************************************************************)

MaxCalls == 3

Runners == {"WithTransaction", "WithTx", "WithTxResult"}
UowKeys == {"k1", "k2"}

\* An error value: the messages its text carries and the error it wraps (%w)
ErrValue(msgs, wraps) == [msgs |-> msgs, wraps |-> wraps]
NilErr == ErrValue({}, "nil")
FnErr == ErrValue({"fn"}, "fn")

\* fmt.Errorf("begin transaction: %w", err)
BeginFailed == ErrValue({"begin"}, "begin")

\* fmt.Errorf("commit transaction: %w", err)
CommitFailed == ErrValue({"commit"}, "commit")

\* a runner that returns fn's error alone when the rollback fails too
RollbackErrorDropped(kind) == FnErr

\* WithTx, WithTxResult: "rollback failed: %v (original error: %w)", rbErr, err
\* WithTransaction:      "tx err: %v, rollback err: %w", err, rbErr
RollbackFailed(kind) ==
    IF kind = "WithTransaction"
    THEN ErrValue({"fn", "rollback"}, "rollback")
    ELSE ErrValue({"fn", "rollback"}, "fn")

\* The runner after fn has returned: Rollback when fn returned an error,
\* Commit otherwise.  A Commit or Rollback that fails ends the transaction
\* without making its writes visible.
Finish(res, kind, opOk) ==
    IF res = "err"
    THEN [tx |-> "rolledback",
          ret |-> IF opOk THEN FnErr ELSE RollbackFailed(kind),
          tried |-> FALSE]
    ELSE IF opOk THEN [tx |-> "committed", ret |-> NilErr, tried |-> TRUE]
    ELSE [tx |-> "rolledback", ret |-> CommitFailed, tried |-> TRUE]

UwInit ==
    /\ uwPc = "idle"
    /\ uwKind = "WithTx"
    /\ uwCall = 0
    /\ uwTx = "none"
    /\ uwPending = {}
    /\ uwDb = {}
    /\ uwFnRes = "none"
    /\ uwRet = NilErr
    /\ uwCommitTried = FALSE
    /\ uwFnFailed = {}

\* A call of a runner: BeginTx, and the early return when it fails
UowBegin(kind, beginOk) ==
    /\ uwPc \in {"idle", "returned", "panicked"}
    /\ uwCall < MaxCalls
    /\ uwKind' = kind
    /\ uwCall' = uwCall + 1
    /\ uwPending' = {}
    /\ uwFnRes' = "none"
    /\ uwCommitTried' = FALSE
    /\ IF beginOk
       THEN uwPc' = "inFn" /\ uwTx' = "open" /\ uwRet' = NilErr
       ELSE uwPc' = "returned" /\ uwTx' = "none" /\ uwRet' = BeginFailed
    /\ UNCHANGED <<uwDb, uwFnFailed>>

\* fn writes through the transaction-bound handle
FnWrite(k) ==
    /\ uwPc = "inFn"
    /\ uwPending' = uwPending \cup {<<uwCall, k>>}
    /\ UNCHANGED <<uwPc, uwKind, uwCall, uwTx, uwDb, uwFnRes, uwRet,
                   uwCommitTried, uwFnFailed>>

\* fn returns nil or an error, or panics.  The runners register no deferred
\* call, so a panic unwinds through them to the caller and nothing else runs.
FnEnd(res) ==
    /\ uwPc = "inFn"
    /\ uwFnRes' = res
    /\ uwPc' = IF res = "panic" THEN "panicked" ELSE "fnReturned"
    /\ uwFnFailed' = IF res = "ok" THEN uwFnFailed ELSE uwFnFailed \cup {uwCall}
    /\ UNCHANGED <<uwKind, uwCall, uwTx, uwPending, uwDb, uwRet, uwCommitTried>>

\* Rollback or Commit, and the return to the caller
UowFinish(opOk) ==
    /\ uwPc = "fnReturned"
    /\ LET r == Finish(uwFnRes, uwKind, opOk)
       IN  /\ uwTx' = r.tx
           /\ uwRet' = r.ret
           /\ uwCommitTried' = r.tried
           /\ uwDb' = IF r.tx = "committed" THEN uwDb \cup uwPending ELSE uwDb
    /\ uwPc' = "returned"
    /\ uwPending' = {}
    /\ UNCHANGED <<uwKind, uwCall, uwFnRes, uwFnFailed>>

UwNext ==
    \/ \E kind \in Runners, ok \in BOOLEAN : UowBegin(kind, ok) /\ UwFrame
    \/ \E k \in UowKeys : FnWrite(k) /\ UwFrame
    \/ \E res \in {"ok", "err", "panic"} : FnEnd(res) /\ UwFrame
    \/ \E ok \in BOOLEAN : UowFinish(ok) /\ UwFrame

(***************************************************************************)
(* Unit-of-work claims                                                     *)
(***************************************************************************)

\* C6: when fn has panicked and the panic has reached the caller, the
\* transaction has been rolled back: it is neither committed nor open
C6_PanicRollsBack == uwPc = "panicked" => uwTx = "rolledback"

\* C7: a call that began a transaction ends with it committed or rolled back,
\* has attempted Commit exactly when fn returned success, and no write of a
\* failed fn is visible
C7_CommitOrRollback ==
    /\ (uwPc \in {"returned", "panicked"} /\ uwTx # "none")
          => uwTx \in {"committed", "rolledback"}
    /\ (uwPc = "returned" /\ uwTx # "none") => (uwCommitTried <=> uwFnRes = "ok")
    /\ \A w \in uwDb : w[1] \notin uwFnFailed

(***************************************************************************)
(*                            LEDGER POSTER                                *)
(***************************************************************************)

\* Amounts are counted in units of the ledger column's scale (DECIMAL(_,8)).
MaxAmount == 2
InitBalance == 2

PostNos == {1, 2}
EntryCounts == {0, 1, 2}

TxIds == {"t1", "t2"}
Accounts == {"a1", "a2"}
EntryTypes == {"DEBIT", "CREDIT", "HOLD"}
Entries == [AccountID : Accounts, EntryType : EntryTypes, Amount : 0..MaxAmount]
EntryLists == UNION {[1..n -> Entries] : n \in EntryCounts}

RECURSIVE ValidateFrom(_, _, _, _)
ValidateFrom(entries, i, debitSum, creditSum) ==
    IF i > Len(entries)
    THEN IF debitSum = creditSum THEN "nil" ELSE "unbalanced transaction"
    ELSE IF entries[i].Amount <= 0 THEN "amount must be positive"
    ELSE IF entries[i].EntryType = "DEBIT"
         THEN ValidateFrom(entries, i + 1, debitSum + entries[i].Amount, creditSum)
    ELSE IF entries[i].EntryType = "CREDIT"
         THEN ValidateFrom(entries, i + 1, debitSum, creditSum + entries[i].Amount)
    ELSE "invalid entry type"

\* the validation with the comparison of the two sums left out
ValidateNoBalance(entries) ==
    IF \E i \in DOMAIN entries : entries[i].Amount <= 0
    THEN "amount must be positive"
    ELSE IF \E i \in DOMAIN entries : entries[i].EntryType \notin {"DEBIT", "CREDIT"}
    THEN "invalid entry type"
    ELSE "nil"

\* the validation with the test of the amounts left out
ValidateNoAmount(entries) ==
    IF \E i \in DOMAIN entries : entries[i].EntryType \notin {"DEBIT", "CREDIT"}
    THEN "invalid entry type"
    ELSE IF \E i \in DOMAIN entries : entries[i].Amount <= 0
    THEN "nil"
    ELSE ValidateFrom(entries, 1, 0, 0)

\* Post, step 1: every amount positive, every type DEBIT or CREDIT, and the
\* debit sum equal to the credit sum
Validate(entries) == ValidateFrom(entries, 1, 0, 0)

\* repo.DebitAccount: the balance goes down, never below zero
DebitAccount(bal, account, amount) ==
    IF bal[account] < amount
    THEN [bal |-> bal, err |-> "InsufficientBalance"]
    ELSE [bal |-> [bal EXCEPT ![account] = @ - amount], err |-> "nil"]

\* repo.CreditAccount: the balance goes up
CreditAccount(bal, account, amount) ==
    [bal |-> [bal EXCEPT ![account] = @ + amount], err |-> "nil"]

updateAccountBalance(bal, e) ==
    IF e.EntryType = "DEBIT" THEN DebitAccount(bal, e.AccountID, e.Amount)
    ELSE IF e.EntryType = "CREDIT" THEN CreditAccount(bal, e.AccountID, e.Amount)
    ELSE [bal |-> bal, err |-> "nil"]

\* repo.InsertEntry: the row written for entry e under txID
InsertEntry(txID, e) ==
    [tx_id |-> txID, account_id |-> e.AccountID, entry_type |-> e.EntryType,
     amount |-> e.Amount]

LgInit ==
    /\ lgPc = "idle"
    /\ lgTxId = "t1"
    /\ lgEntries = <<>>
    /\ lgIdx = 1
    /\ lgBal = [a \in Accounts |-> InitBalance]
    /\ lgRows = <<>>
    /\ lgTxBal = [a \in Accounts |-> InitBalance]
    /\ lgTxRows = <<>>
    /\ lgRet = "nil"
    /\ lgPosts = 0
    /\ lgDiscarded = 0
    /\ lgArg = <<>>

\* Post up to the first loop iteration: validation, then BeginTx
PostBegin(txID, entries, beginOk) ==
    /\ lgPc = "idle"
    /\ lgPosts + 1 \in PostNos
    /\ lgPosts' = lgPosts + 1
    /\ lgTxId' = txID
    /\ lgIdx' = 1
    /\ lgTxBal' = lgBal
    /\ lgTxRows' = <<>>
    /\ lgDiscarded' = 0
    /\ lgArg' = entries
    /\ LET v == Validate(entries)
       IN  IF v # "nil" THEN lgPc' = "idle" /\ lgRet' = v /\ lgEntries' = <<>>
           ELSE IF ~beginOk
           THEN lgPc' = "idle" /\ lgRet' = "begin failed" /\ lgEntries' = <<>>
           ELSE lgPc' = "inTx" /\ lgRet' = "nil" /\ lgEntries' = entries
    /\ UNCHANGED <<lgBal, lgRows>>

\* One loop iteration: updateAccountBalance, then InsertEntry; either may
\* return an error, which ends fn
PostEntry(fail) ==
    /\ lgPc = "inTx"
    /\ lgIdx <= Len(lgEntries)
    /\ LET e == lgEntries[lgIdx]
           u == updateAccountBalance(lgTxBal, e)
       IN  IF fail = "update" \/ u.err # "nil"
           THEN /\ lgPc' = "fnReturned"
                /\ lgRet' = IF u.err # "nil" THEN u.err ELSE "db error"
                /\ UNCHANGED <<lgTxBal, lgTxRows, lgIdx>>
           ELSE IF fail = "insert"
           THEN /\ lgPc' = "fnReturned"
                /\ lgRet' = "db error"
                /\ lgTxBal' = u.bal
                /\ UNCHANGED <<lgTxRows, lgIdx>>
           ELSE /\ lgTxBal' = u.bal
                /\ lgTxRows' = Append(lgTxRows, InsertEntry(lgTxId, e))
                /\ lgIdx' = lgIdx + 1
                /\ UNCHANGED <<lgPc, lgRet>>
    /\ UNCHANGED <<lgTxId, lgEntries, lgBal, lgRows, lgPosts, lgDiscarded, lgArg>>

\* fn has returned (nil after the last entry, or an error): WithTransaction
\* commits or rolls back, and Post returns
PostFinish(opOk) ==
    /\ \/ lgPc = "fnReturned"
       \/ lgPc = "inTx" /\ lgIdx > Len(lgEntries)
    /\ LET r == Finish(IF lgPc = "inTx" THEN "ok" ELSE "err", "WithTransaction", opOk)
       IN  /\ IF r.tx = "committed"
              THEN lgRows' = lgRows \o lgTxRows /\ lgBal' = lgTxBal /\ lgDiscarded' = 0
              ELSE UNCHANGED <<lgRows, lgBal>> /\ lgDiscarded' = Len(lgTxRows)
           /\ lgRet' = IF r.ret = NilErr THEN "nil"
                       ELSE IF r.ret = FnErr THEN lgRet
                       ELSE IF r.ret = CommitFailed THEN "commit failed"
                       ELSE "rollback failed"
    /\ lgPc' = "idle"
    /\ lgEntries' = <<>>
    /\ lgIdx' = 1
    /\ lgTxRows' = <<>>
    /\ lgTxBal' = lgBal'
    /\ lgArg' = <<>>
    /\ UNCHANGED <<lgTxId, lgPosts>>

LgNext ==
    \/ \E t \in TxIds, es \in EntryLists, ok \in BOOLEAN : PostBegin(t, es, ok) /\ LgFrame
    \/ \E f \in {"none", "update", "insert"} : PostEntry(f) /\ LgFrame
    \/ \E ok \in BOOLEAN : PostFinish(ok) /\ LgFrame

(***************************************************************************)
(* Ledger claims                                                           *)
(***************************************************************************)

RECURSIVE SumRows(_, _, _)
SumRows(rows, t, type) ==
    IF rows = <<>> THEN 0
    ELSE (IF Head(rows).tx_id = t /\ Head(rows).entry_type = type
          THEN Head(rows).amount ELSE 0) + SumRows(Tail(rows), t, type)

\* C1: for every transaction-group id the committed ledger rows have equal
\* debit and credit sums, also after a Post that failed part-way through
C1_LedgerBalanced ==
    \A t \in TxIds : SumRows(lgRows, t, "DEBIT") = SumRows(lgRows, t, "CREDIT")

\* the sum of the amounts of the entries of one type
RECURSIVE SumEntries(_, _)
SumEntries(entries, type) ==
    IF entries = <<>> THEN 0
    ELSE (IF Head(entries).EntryType = type THEN Head(entries).Amount ELSE 0)
         + SumEntries(Tail(entries), type)

\* an entry set Post has to reject: an amount that is not positive, a side
\* other than DEBIT / CREDIT, or a debit total different from the credit total
Rejectable(entries) ==
    \/ \E i \in DOMAIN entries : entries[i].Amount <= 0
    \/ \E i \in DOMAIN entries : entries[i].EntryType \notin {"DEBIT", "CREDIT"}
    \/ SumEntries(entries, "DEBIT") # SumEntries(entries, "CREDIT")

\* C19: a Post of such an entry set returns the input error, opens no
\* transaction, changes no balance and inserts no ledger row
C19_InvalidPostChangesNothing ==
    [][(lgPosts' = lgPosts + 1 /\ Rejectable(lgArg'))
       => /\ lgRet' \in {"amount must be positive", "invalid entry type",
                         "unbalanced transaction"}
          /\ lgPc' = "idle"
          /\ lgBal' = lgBal
          /\ lgRows' = lgRows
          /\ lgTxRows' = <<>>
          /\ lgTxBal' = lgBal]_vars

\* an unbalanced entry set of positive debit and credit amounts has been
\* rejected while the ledger already held rows
C19_Witness ==
    /\ lgPc = "idle"
    /\ Len(lgArg) = 2
    /\ \A i \in DOMAIN lgArg : lgArg[i].Amount > 0 /\ lgArg[i].EntryType \in {"DEBIT", "CREDIT"}
    /\ SumEntries(lgArg, "DEBIT") # SumEntries(lgArg, "CREDIT")
    /\ lgRet = "unbalanced transaction"
    /\ Len(lgRows) > 0

\* C1 witness: a Post has failed after inserting rows and has returned, and
\* the ledger holds rows of an earlier Post under the same id
C1_Witness ==
    /\ lgPc = "idle"
    /\ lgRet \notin {"nil", "commit failed"}
    /\ lgDiscarded > 0
    /\ \E i \in DOMAIN lgRows : lgRows[i].tx_id = lgTxId

(***************************************************************************)
(*                            WALLET SERVICE                               *)
(*                                                                         *)
(* Requests interleave statement by statement.  A transaction sees its own *)
(* writes; every other read sees committed rows.  The repository sets no   *)
(* isolation level (BeginTx with nil options, no isolation in the DSN), so *)
(* InnoDB's default applies, REPEATABLE READ: an UPDATE or a               *)
(* SELECT ... FOR UPDATE locks every index record it meets, whether or not *)
(* the row matches the rest of the WHERE clause, keeps the lock until the  *)
(* transaction ends and waits for a record another transaction has locked; *)
(* a scan of idx_user_primary also locks the gap it covers, into which no  *)
(* other transaction can insert an entry.  Two transactions that wait for  *)
(* each other are a deadlock: InnoDB rolls one of them back as a whole and *)
(* its statement fails.                                                    *)
(***************************************************************************)

Requests == {"r1", "r2"}
Wallets == {"wA", "wB"}
UserRow == "user"
AcctRow == "account"
\* the range of idx_user_primary that holds the user's is_primary = true
\* entries, with the gaps around them
PrimaryGap == "idx_user_primary"

\* the InvalidInput errors the claims are about, with their messages
MustBeVerified == "InvalidInput: Wallet must be verified before setting as primary"
CannotDeletePrimary == "InvalidInput: Cannot delete primary wallet. Set another wallet as primary first."
NowPrimary == "InvalidInput: Cannot delete wallet - it is now the primary wallet"
\* the Internal error of DeleteWallet
FailedToDelete == "Internal: Failed to delete wallet"

\* the signatures a request may carry: one that parseSignature rejects, one
\* of 65 bytes that recovers no public key, one that does not recover the
\* wallet's address, one that verifies
WalletNonces == {"n1"}
WalletSignatures == {"malformed", "norecover", "mismatch", "valid"}
\* wallet.Address, the stored address of a wallet, which VerifyWallet passes
\* as the address and as message.Wallet
StoredAddress == "0xab"
\* the NotFound of a call whose user GetUserByExternalID does not find
UserNotFound == "NotFound: User"

\* Times are counted from the present, which is 0: an expiry time is the
\* time the key has left, a timestamp is minus the age of the message.
\* the timestamps a request may carry: one older than the tolerance, the
\* oldest one within it, and the present time
StaleTimestamp == 0 - DefaultTimestampTolerance - 1
WalletTimestamps == {StaleTimestamp, 0 - DefaultTimestampTolerance, 0}

\* the key of wallet w's address and a nonce; the wallet stands for its
\* address, which is a hex address since registration
WlKeys == {buildKey(w, n) : w \in Wallets, n \in WalletNonces}

\* the message of a request that is not inside VerifyWalletOwnership
NoMsg == [sig |-> "none", nonce |-> "n1", timestamp |-> 0]

\* the wallet of a request that is in no call
NoWallet == "none"

NewWallet == [is_verified |-> FALSE, is_primary |-> FALSE, deleted |-> FALSE]

\* the row as request r sees it inside its transaction
View(r, w) == IF w \in wlDirty[r] THEN wlPend[r][w] ELSE wlDb[w]

LockedByOther(r, k) == \E q \in Requests \ {r} : k \in wlLocks[q]

\* an insert into the locked range of idx_user_primary that finds no gap lock
NoGapLock(r) == FALSE

\* another transaction holds a gap lock on the range of idx_user_primary
\* into which an is_primary = true entry of the user is inserted
GapLockedByOther(r) == LockedByOther(r, PrimaryGap)

\* the rows with an entry in the is_primary = true range of
\* idx_user_primary: committed primary (the entry is there, or delete-marked
\* by a transaction that cleared it) or made primary by an open transaction
PrimaryEntry(w) ==
    \/ wlDb[w].is_primary
    \/ \E q \in Requests : w \in wlDirty[q] /\ wlPend[q][w].is_primary

\* WHERE clauses of the wallets statements (id and user_id always match here)
UpdateWalletVerifiedWhere(row) == ~row.is_verified /\ ~row.deleted
ClearPrimaryWalletWhere(row) == row.is_primary /\ ~row.deleted
SetWalletPrimaryWhere(row) == row.is_verified /\ ~row.deleted
\* a SoftDeleteWallet without the is_primary = false condition
SoftDeleteAnyWhere(row) == ~row.deleted
SoftDeleteWalletWhere(row) == ~row.is_primary /\ ~row.deleted

\* GetPrimaryWallet: is there a non-deleted primary row of the user
GetPrimaryWallet(r) == {w \in Wallets : View(r, w).is_primary /\ ~View(r, w).deleted}

\* the transaction of r writes row w
WlWrite(r, w, row) ==
    /\ wlPend' = [wlPend EXCEPT ![r][w] = row]
    /\ wlDirty' = [wlDirty EXCEPT ![r] = @ \cup {w}]
    /\ wlLocks' = [wlLocks EXCEPT ![r] = @ \cup {w}]

\* what a call returned; short: it returned at the already-verified check
\* of VerifyWallet
WlReturned(ret, short) == [ret |-> ret, short |-> short]
NoWlReturn == WlReturned("none", FALSE)

\* request r's call returns; its transaction, if any, is over without effect
WlReturnWith(r, ret, short) ==
    /\ wlPc' = [wlPc EXCEPT ![r] = "idle"]
    /\ wlArg' = [wlArg EXCEPT ![r] = NoWallet]
    /\ wlRet = NoWlReturn
    /\ wlRet' = WlReturned(ret, short)
    /\ wlDirty' = [wlDirty EXCEPT ![r] = {}]
    /\ wlPend' = [wlPend EXCEPT ![r] = [v \in Wallets |-> NewWallet]]
    /\ wlAcctPend' = [wlAcctPend EXCEPT ![r] = "unset"]
    /\ wlLocks' = [wlLocks EXCEPT ![r] = {}]
    /\ wlFailed' = [wlFailed EXCEPT ![r] = FALSE]

WlReturn(r, ret) == WlReturnWith(r, ret, FALSE)

WlInit ==
    /\ wlDb = [w \in Wallets |-> NewWallet]
    /\ wlAcct = "null"
    /\ wlPc = [r \in Requests |-> "idle"]
    /\ wlArg = [r \in Requests |-> NoWallet]
    /\ wlDirty = [r \in Requests |-> {}]
    /\ wlPend = [r \in Requests |-> [w \in Wallets |-> NewWallet]]
    /\ wlAcctPend = [r \in Requests |-> "unset"]
    /\ wlLocks = [r \in Requests |-> {}]
    /\ wlRet = NoWlReturn
    /\ wlFailed = [r \in Requests |-> FALSE]
    /\ wlNonces = [k \in WlKeys |-> NoEntry]
    /\ wlMsg = [r \in Requests |-> NoMsg]

\* what the call that has just returned returned is delivered to its
\* caller, before any other step
WlDeliver ==
    /\ wlRet # NoWlReturn
    /\ wlRet' = NoWlReturn
    /\ UNCHANGED <<wlDb, wlAcct, wlPc, wlArg, wlDirty, wlPend, wlAcctPend,
                   wlLocks, wlFailed, wlNonces, wlMsg>>

\* the request moves on to statement pc, its transaction untouched
WlGoto(r, pc) ==
    /\ wlPc' = [wlPc EXCEPT ![r] = pc]
    /\ UNCHANGED <<wlArg, wlDirty, wlPend, wlAcctPend, wlLocks, wlFailed>>
    /\ wlRet = NoWlReturn /\ UNCHANGED wlRet

\* the call of request r on wallet w goes on to statement pc
WlCall(r, w, pc) ==
    /\ wlPc' = [wlPc EXCEPT ![r] = pc]
    /\ wlArg' = [wlArg EXCEPT ![r] = w]
    /\ UNCHANGED <<wlDirty, wlPend, wlAcctPend, wlLocks, wlFailed>>
    /\ wlRet = NoWlReturn /\ UNCHANGED wlRet

\* a key's entry and a timestamp after time d has passed
Elapsed(entry, d) ==
    IF entry.val # "none" /\ d < entry.exp
    THEN [entry EXCEPT !.exp = @ - d] ELSE NoEntry
Aged(timestamp, d) ==
    IF timestamp - d < StaleTimestamp THEN StaleTimestamp ELSE timestamp - d

\* time passes by one TTL, when that changes anything: keys whose TTL has
\* elapsed are gone, and the messages of the requests inside
\* VerifyWalletOwnership are older
WlTick ==
    /\ \/ \E k \in WlKeys : Present(wlNonces, k, 0)
       \/ \E r \in Requests : wlPc[r] = "vo_reserve"
                               /\ wlMsg[r].timestamp # StaleTimestamp
    /\ wlNonces' = [k \in WlKeys |-> Elapsed(wlNonces[k], DefaultTTL)]
    /\ wlMsg' = [r \in Requests |->
                   IF wlPc[r] = "vo_reserve"
                   THEN [wlMsg[r] EXCEPT !.timestamp = Aged(@, DefaultTTL)]
                   ELSE wlMsg[r]]
    /\ UNCHANGED <<wlDb, wlAcct, wlPc, wlArg, wlDirty, wlPend, wlAcctPend,
                   wlLocks, wlFailed>>
    /\ wlRet = NoWlReturn /\ UNCHANGED wlRet

\* the request goes on into VerifyWalletOwnership with its message
WlVerifyOwnership(r, w, sig, nonce, timestamp) ==
    /\ WlCall(r, w, "vo_reserve")
    /\ wlMsg' = [wlMsg EXCEPT ![r] = [sig |-> sig, nonce |-> nonce,
                                      timestamp |-> timestamp]]

\* a VerifyWallet that verifies ownership whether or not the wallet is
\* verified already
VerifyWalletRecheck(r, w, sig, nonce, timestamp, dbOk) ==
    /\ wlPc[r] = "idle"
    /\ IF sig = "malformed"
       THEN WlReturn(r, "InvalidInput: Invalid signature format") /\ UNCHANGED wlMsg
       ELSE IF ~dbOk THEN WlReturn(r, "DBError") /\ UNCHANGED wlMsg
       ELSE IF wlDb[w].deleted THEN WlReturn(r, "NotFound") /\ UNCHANGED wlMsg
       ELSE WlVerifyOwnership(r, w, sig, nonce, timestamp)
    /\ UNCHANGED <<wlDb, wlAcct, wlNonces>>

\* VerifyWallet up to VerifyWalletOwnership: parseSignature, GetWallet and
\* the already-verified return; dbOk: the read succeeds
VerifyWallet(r, w, sig, nonce, timestamp, dbOk) ==
    /\ wlPc[r] = "idle"
    /\ IF sig = "malformed"
       THEN WlReturn(r, "InvalidInput: Invalid signature format") /\ UNCHANGED wlMsg
       ELSE IF ~dbOk THEN WlReturn(r, "DBError") /\ UNCHANGED wlMsg
       ELSE IF wlDb[w].deleted THEN WlReturn(r, "NotFound") /\ UNCHANGED wlMsg
       ELSE IF wlDb[w].is_verified
       THEN WlReturnWith(r, "ok", TRUE) /\ UNCHANGED wlMsg
       ELSE WlVerifyOwnership(r, w, sig, nonce, timestamp)
    /\ UNCHANGED <<wlDb, wlAcct, wlNonces>>

\* VerifyWalletOwnership steps 2-3: validateTimestamp, then Reserve; every
\* error is returned by VerifyWallet as the one InvalidInput
OwnershipReserve(r, redisOk) ==
    /\ wlPc[r] = "vo_reserve"
    /\ LET k == buildKey(wlArg[r], wlMsg[r].nonce)
       IN  IF \/ validateTimestamp(wlMsg[r].timestamp, 0) # "ok"
              \/ ~redisOk
              \/ ~SetNXOk(wlNonces, k, 0)
           THEN /\ WlReturn(r, "InvalidInput: Wallet verification failed")
                /\ wlMsg' = [wlMsg EXCEPT ![r] = NoMsg]
                /\ UNCHANGED wlNonces
           ELSE /\ wlNonces' = Reserve(wlNonces, k, 0)
                /\ WlGoto(r, "vo_sig")
                /\ UNCHANGED wlMsg
    /\ UNCHANGED <<wlDb, wlAcct>>

\* VerifyWalletOwnership steps 4-5: VerifySignatureOnly, then Release on
\* failure or MarkUsed on success, a failing store command being only
\* logged; on success markWalletVerified begins its transaction
OwnershipSignature(r, redisOk) ==
    /\ wlPc[r] = "vo_sig"
    /\ LET k == buildKey(wlArg[r], wlMsg[r].nonce)
           v == VerifySignatureOnly(StoredAddress, wlMsg[r].sig)
       IN  IF v.err # "nil" \/ ~v.valid
           THEN /\ wlNonces' = IF redisOk THEN Release(wlNonces, k) ELSE wlNonces
                /\ WlReturn(r, "InvalidInput: Wallet verification failed")
           ELSE /\ wlNonces' = IF redisOk THEN MarkUsed(wlNonces, k, 0)
                               ELSE wlNonces
                /\ WlGoto(r, "mv_update")
    /\ wlMsg' = [wlMsg EXCEPT ![r] = NoMsg]
    /\ UNCHANGED <<wlDb, wlAcct>>

\* markWalletVerified 1: UpdateWalletVerified, which locks the row it finds
\* by id; no row affected skips to the final read
MvUpdate(r) ==
    /\ wlPc[r] = "mv_update"
    /\ LET w == wlArg[r]
       IN  /\ ~LockedByOther(r, w)
           /\ IF UpdateWalletVerifiedWhere(View(r, w))
              THEN /\ WlWrite(r, w, [View(r, w) EXCEPT !.is_verified = TRUE])
                   /\ wlPc' = [wlPc EXCEPT ![r] = "mv_getprimary"]
                   /\ UNCHANGED <<wlArg, wlAcctPend, wlFailed>>
                   /\ wlRet = NoWlReturn /\ UNCHANGED wlRet
              ELSE /\ wlLocks' = [wlLocks EXCEPT ![r] = @ \cup {w}]
                   /\ wlPc' = [wlPc EXCEPT ![r] = "mv_commit"]
                   /\ UNCHANGED <<wlArg, wlDirty, wlPend, wlAcctPend, wlFailed>>
                   /\ wlRet = NoWlReturn /\ UNCHANGED wlRet
    /\ UNCHANGED <<wlDb, wlAcct, wlNonces, wlMsg>>

\* markWalletVerified 2: GetPrimaryWallet; ErrNoRows leads to setPrimaryInternal
MvGetPrimary(r) ==
    /\ wlPc[r] = "mv_getprimary"
    /\ IF GetPrimaryWallet(r) = {} THEN WlGoto(r, "mv_clear") ELSE WlGoto(r, "mv_commit")
    /\ UNCHANGED <<wlDb, wlAcct, wlNonces, wlMsg>>

\* ClearPrimaryWallet, in setPrimaryInternal and in SetPrimary: the scan of
\* the user's is_primary = true entries locks the entries it meets and the
\* gaps of that range
ClearPrimaryWallet(r, next) ==
    /\ \A w \in Wallets : PrimaryEntry(w) => ~LockedByOther(r, w)
    /\ LET hit == {w \in Wallets : ClearPrimaryWalletWhere(View(r, w))}
       IN  /\ wlPend' = [wlPend EXCEPT ![r] =
                           [w \in Wallets |-> IF w \in hit
                                              THEN [View(r, w) EXCEPT !.is_primary = FALSE]
                                              ELSE @[w]]]
           /\ wlDirty' = [wlDirty EXCEPT ![r] = @ \cup hit]
           /\ wlLocks' = [wlLocks EXCEPT ![r] = @ \cup hit \cup {PrimaryGap}]
    /\ wlPc' = [wlPc EXCEPT ![r] = next]
    /\ UNCHANGED <<wlDb, wlAcct, wlArg, wlNonces, wlMsg, wlAcctPend, wlFailed>>
    /\ wlRet = NoWlReturn /\ UNCHANGED wlRet

\* setPrimaryInternal: ClearPrimaryWallet
MvClear(r) == wlPc[r] = "mv_clear" /\ ClearPrimaryWallet(r, "mv_set")

\* setPrimaryInternal: SetWalletPrimary, which inserts the row's
\* is_primary = true entry into idx_user_primary; no row affected is an
\* error that markWalletVerified only logs
MvSet(r) ==
    /\ wlPc[r] = "mv_set"
    /\ LET w == wlArg[r]
       IN  IF SetWalletPrimaryWhere(View(r, w))
           THEN /\ ~GapLockedByOther(r)
                /\ WlWrite(r, w, [View(r, w) EXCEPT !.is_primary = TRUE])
                /\ wlPc' = [wlPc EXCEPT ![r] = "mv_acct"]
                /\ UNCHANGED <<wlArg, wlAcctPend, wlFailed>>
                /\ wlRet = NoWlReturn /\ UNCHANGED wlRet
           ELSE WlGoto(r, "mv_commit")
    /\ UNCHANGED <<wlDb, wlAcct, wlNonces, wlMsg>>

\* UpdateAccountPrimaryWallet, in setPrimaryInternal and in SetPrimary: the
\* statement finds the owner's USER account, locks it and writes the pointer
\* unless the account's status is CLOSED, which is no error; closed: the
\* account is CLOSED, as DeleteUser of the owner leaves it
UpdateAccountPrimaryWallet(r, next, closed) ==
    /\ ~LockedByOther(r, AcctRow)
    /\ wlAcctPend' = [wlAcctPend EXCEPT ![r] = IF closed THEN @ ELSE wlArg[r]]
    /\ wlLocks' = [wlLocks EXCEPT ![r] = @ \cup {AcctRow}]
    /\ wlPc' = [wlPc EXCEPT ![r] = next]
    /\ UNCHANGED <<wlDb, wlAcct, wlArg, wlNonces, wlMsg, wlDirty, wlPend, wlFailed>>
    /\ wlRet = NoWlReturn /\ UNCHANGED wlRet

\* setPrimaryInternal: UpdateAccountPrimaryWallet
MvAcct(r, closed) ==
    wlPc[r] = "mv_acct" /\ UpdateAccountPrimaryWallet(r, "mv_commit", closed)

\* the final GetWalletByID, which leaves deleted rows out: a deleted wallet
\* is ErrNoRows, fn returns DBError and WithTxResult rolls back; otherwise
\* fn returns nil and WithTxResult commits
WlCommit(r) ==
    /\ wlPc[r] \in {"mv_commit", "sp_commit"}
    /\ IF View(r, wlArg[r]).deleted
       THEN /\ WlReturn(r, "DBError")
            /\ UNCHANGED <<wlDb, wlAcct>>
       ELSE /\ wlDb' = [w \in Wallets |-> View(r, w)]
            /\ wlAcct' = IF wlAcctPend[r] = "unset" THEN wlAcct ELSE wlAcctPend[r]
            /\ WlReturn(r, "ok")
    /\ UNCHANGED <<wlNonces, wlMsg>>

\* a SetPrimary without the verified check
SetPrimaryUnchecked(r, w, dbOk, userDeleted) ==
    /\ wlPc[r] = "idle"
    /\ IF ~dbOk THEN WlReturn(r, "DBError")
       ELSE IF wlDb[w].deleted THEN WlReturn(r, "NotFound")
       ELSE IF wlDb[w].is_primary THEN WlReturn(r, "ok")
       ELSE IF userDeleted THEN WlReturn(r, UserNotFound)
       ELSE WlCall(r, w, "sp_lockuser")
    /\ UNCHANGED <<wlDb, wlAcct, wlNonces, wlMsg>>

\* SetPrimary up to the transaction: GetWallet (whose join reads the owner
\* whatever its status), the verified check, the already-primary return,
\* GetUserByExternalID, which finds no user whose status is DELETED; dbOk:
\* the reads succeed, userDeleted: the owner has been deleted
SetPrimary(r, w, dbOk, userDeleted) ==
    /\ wlPc[r] = "idle"
    /\ IF ~dbOk THEN WlReturn(r, "DBError")
       ELSE IF wlDb[w].deleted THEN WlReturn(r, "NotFound")
       ELSE IF ~wlDb[w].is_verified THEN WlReturn(r, MustBeVerified)
       ELSE IF wlDb[w].is_primary THEN WlReturn(r, "ok")
       ELSE IF userDeleted THEN WlReturn(r, UserNotFound)
       ELSE WlCall(r, w, "sp_lockuser")
    /\ UNCHANGED <<wlDb, wlAcct, wlNonces, wlMsg>>

\* SetPrimary 1: GetUserForUpdate
SpLockUser(r) ==
    /\ wlPc[r] = "sp_lockuser"
    /\ ~LockedByOther(r, UserRow)
    /\ wlLocks' = [wlLocks EXCEPT ![r] = @ \cup {UserRow}]
    /\ wlPc' = [wlPc EXCEPT ![r] = "sp_lockwallet"]
    /\ UNCHANGED <<wlDb, wlAcct, wlArg, wlNonces, wlMsg, wlDirty, wlPend, wlAcctPend, wlFailed>>
    /\ wlRet = NoWlReturn /\ UNCHANGED wlRet

\* SetPrimary 2: GetWalletForUpdate; a deleted wallet is ErrNoRows
SpLockWallet(r) ==
    /\ wlPc[r] = "sp_lockwallet"
    /\ ~LockedByOther(r, wlArg[r])
    /\ IF wlDb[wlArg[r]].deleted
       THEN WlReturn(r, "DBError")
       ELSE /\ wlLocks' = [wlLocks EXCEPT ![r] = @ \cup {wlArg[r]}]
            /\ wlPc' = [wlPc EXCEPT ![r] = "sp_clear"]
            /\ UNCHANGED <<wlArg, wlDirty, wlPend, wlAcctPend, wlFailed>>
            /\ wlRet = NoWlReturn /\ UNCHANGED wlRet
    /\ UNCHANGED <<wlDb, wlAcct, wlNonces, wlMsg>>

\* SetPrimary 3: ClearPrimaryWallet
SpClear(r) == wlPc[r] = "sp_clear" /\ ClearPrimaryWallet(r, "sp_set")

\* SetPrimary 4: SetWalletPrimary; no row affected rolls back
SpSet(r) ==
    /\ wlPc[r] = "sp_set"
    /\ LET w == wlArg[r]
       IN  IF SetWalletPrimaryWhere(View(r, w))
           THEN /\ ~GapLockedByOther(r)
                /\ WlWrite(r, w, [View(r, w) EXCEPT !.is_primary = TRUE])
                /\ wlPc' = [wlPc EXCEPT ![r] = "sp_acct"]
                /\ UNCHANGED <<wlArg, wlAcctPend, wlFailed>>
                /\ wlRet = NoWlReturn /\ UNCHANGED wlRet
           ELSE WlReturn(r, "InvalidInput: Failed to set primary - wallet may not be verified")
    /\ UNCHANGED <<wlDb, wlAcct, wlNonces, wlMsg>>

\* SetPrimary 5: UpdateAccountPrimaryWallet.  The transaction holds the lock
\* of the user row, found with status != 'DELETED', which DeleteUser updates
\* before it closes the account: the account is not CLOSED here
SpAcct(r) == wlPc[r] = "sp_acct" /\ UpdateAccountPrimaryWallet(r, "sp_commit", FALSE)

\* a statement whose error ends the call fails, or Commit fails: rollback
WlDbError(r) ==
    /\ wlPc[r] \in {"mv_update", "mv_commit", "sp_lockuser", "sp_lockwallet",
                    "sp_clear", "sp_set", "sp_commit", "del_update"}
    /\ WlReturn(r, "DBError")
    /\ UNCHANGED <<wlDb, wlAcct, wlNonces, wlMsg>>

\* a statement whose error is only logged fails: markWalletVerified goes on
\* to its final read, and so does SetPrimary after UpdateAccountPrimaryWallet
WlLoggedError(r) ==
    /\ wlPc[r] \in {"mv_getprimary", "mv_clear", "mv_set", "mv_acct", "sp_acct"}
    /\ wlPc' = [wlPc EXCEPT ![r] = IF wlPc[r] = "sp_acct" THEN "sp_commit"
                                    ELSE "mv_commit"]
    /\ wlFailed' = [wlFailed EXCEPT ![r] = TRUE]
    /\ UNCHANGED <<wlDirty, wlPend, wlAcctPend, wlLocks>>
    /\ wlRet = NoWlReturn /\ UNCHANGED wlRet
    /\ UNCHANGED <<wlDb, wlAcct, wlArg, wlNonces, wlMsg>>

\* the locks the next statement of request r asks for
WlWaits(r) ==
    IF wlPc[r] \in {"mv_update", "sp_lockwallet", "del_update"} THEN {wlArg[r]}
    ELSE IF wlPc[r] = "sp_lockuser" THEN {UserRow}
    ELSE IF wlPc[r] \in {"mv_clear", "sp_clear"}
    THEN {w \in Wallets : PrimaryEntry(w)}
    ELSE IF wlPc[r] \in {"mv_set", "sp_set"}
    THEN (IF SetWalletPrimaryWhere(View(r, wlArg[r])) THEN {PrimaryGap} ELSE {})
    ELSE IF wlPc[r] \in {"mv_acct", "sp_acct"} THEN {AcctRow}
    ELSE {}

\* r waits for a lock of q
WlWaitsFor(r, q) == \E k \in WlWaits(r) : k \in wlLocks[q]

\* InnoDB finds r and another transaction waiting for each other and rolls
\* r's transaction back as a whole; r's statement fails.  Where the error
\* ends the call it returns DBError; where it is only logged the function
\* goes on to its final read with no transaction left, so that the read
\* runs in autocommit mode and Commit has nothing to commit
WlDeadlock(r) ==
    /\ \E q \in Requests \ {r} : WlWaitsFor(r, q) /\ WlWaitsFor(q, r)
    /\ IF wlPc[r] \in {"mv_clear", "mv_set", "mv_acct", "sp_acct"}
       THEN /\ wlPc' = [wlPc EXCEPT ![r] = IF wlPc[r] = "sp_acct" THEN "sp_commit"
                                            ELSE "mv_commit"]
            /\ wlDirty' = [wlDirty EXCEPT ![r] = {}]
            /\ wlPend' = [wlPend EXCEPT ![r] = [v \in Wallets |-> NewWallet]]
            /\ wlAcctPend' = [wlAcctPend EXCEPT ![r] = "unset"]
            /\ wlLocks' = [wlLocks EXCEPT ![r] = {}]
            /\ wlFailed' = [wlFailed EXCEPT ![r] = TRUE]
            /\ UNCHANGED wlArg
            /\ wlRet = NoWlReturn /\ UNCHANGED wlRet
       ELSE WlReturn(r, "DBError")
    /\ UNCHANGED <<wlDb, wlAcct, wlNonces, wlMsg>>

\* DeleteWallet up to the update: the read including deleted rows, the
\* already-deleted return, the primary check
DeleteWallet(r, w, dbOk) ==
    /\ wlPc[r] = "idle"
    /\ IF ~dbOk THEN WlReturn(r, "DBError")
       ELSE IF wlDb[w].deleted THEN WlReturn(r, "ok")
       ELSE IF wlDb[w].is_primary THEN WlReturn(r, CannotDeletePrimary)
       ELSE WlCall(r, w, "del_update")
    /\ UNCHANGED <<wlDb, wlAcct, wlNonces, wlMsg>>

\* SoftDeleteWallet, outside any transaction, which waits for the lock of
\* the row it finds by id; when it affects no row the wallet is read again
DelUpdate(r) ==
    /\ wlPc[r] = "del_update"
    /\ LET w == wlArg[r]
       IN  /\ ~LockedByOther(r, w)
           /\ IF SoftDeleteWalletWhere(wlDb[w])
              THEN /\ wlDb' = [wlDb EXCEPT ![w].deleted = TRUE, ![w].is_primary = FALSE]
                   /\ WlReturn(r, "ok")
              ELSE /\ UNCHANGED wlDb
                   /\ WlGoto(r, "del_refetch")
    /\ UNCHANGED <<wlAcct, wlNonces, wlMsg>>

\* the re-read after a SoftDeleteWallet of no row, including deleted rows,
\* and the return that goes by the row as it is now
DelRefetch(r, dbOk) ==
    /\ wlPc[r] = "del_refetch"
    /\ LET w == wlArg[r]
       IN  WlReturn(r, IF ~dbOk THEN "DBError"
                       ELSE IF wlDb[w].deleted THEN "ok"
                       ELSE IF wlDb[w].is_primary THEN NowPrimary
                       ELSE FailedToDelete)
    /\ UNCHANGED <<wlDb, wlAcct, wlNonces, wlMsg>>

WlNext ==
    \/ WlTick /\ WlFrame
    \/ WlDeliver /\ WlFrame
    \/ \E r \in Requests, w \in Wallets, sig \in WalletSignatures, nonce \in WalletNonces,
          dbOk \in BOOLEAN :
          \E t \in WalletTimestamps :
             VerifyWallet(r, w, sig, nonce, t, dbOk) /\ WlFrame
    \/ \E r \in Requests, ok \in BOOLEAN : OwnershipReserve(r, ok) /\ WlFrame
    \/ \E r \in Requests, ok \in BOOLEAN : OwnershipSignature(r, ok) /\ WlFrame
    \/ \E r \in Requests : MvUpdate(r) /\ WlFrame
    \/ \E r \in Requests : MvGetPrimary(r) /\ WlFrame
    \/ \E r \in Requests : MvClear(r) /\ WlFrame
    \/ \E r \in Requests : MvSet(r) /\ WlFrame
    \/ \E r \in Requests, closed \in BOOLEAN : MvAcct(r, closed) /\ WlFrame
    \/ \E r \in Requests : WlCommit(r) /\ WlFrame
    \/ \E r \in Requests, w \in Wallets, dbOk \in BOOLEAN, userDeleted \in BOOLEAN :
          SetPrimary(r, w, dbOk, userDeleted) /\ WlFrame
    \/ \E r \in Requests : SpLockUser(r) /\ WlFrame
    \/ \E r \in Requests : SpLockWallet(r) /\ WlFrame
    \/ \E r \in Requests : SpClear(r) /\ WlFrame
    \/ \E r \in Requests : SpSet(r) /\ WlFrame
    \/ \E r \in Requests : SpAcct(r) /\ WlFrame
    \/ \E r \in Requests : WlDbError(r) /\ WlFrame
    \/ \E r \in Requests : WlLoggedError(r) /\ WlFrame
    \/ \E r \in Requests : WlDeadlock(r) /\ WlFrame
    \/ \E r \in Requests, w \in Wallets, dbOk \in BOOLEAN : DeleteWallet(r, w, dbOk) /\ WlFrame
    \/ \E r \in Requests : DelUpdate(r) /\ WlFrame
    \/ \E r \in Requests, ok \in BOOLEAN : DelRefetch(r, ok) /\ WlFrame

(***************************************************************************)
(* Wallet claims                                                           *)
(***************************************************************************)

\* C4: at most one non-deleted wallet of the user has is_primary = true
C4_AtMostOnePrimary ==
    Cardinality({w \in Wallets : wlDb[w].is_primary /\ ~wlDb[w].deleted}) <= 1

\* two verifications raced for the primary flag: one was rolled back as the
\* deadlock victim and goes on without a transaction, the other committed
\* its wallet verified and primary
C4_Witness ==
    \E r \in Requests, v \in Wallets :
        /\ wlPc[r] = "mv_commit" /\ wlFailed[r] /\ wlLocks[r] = {}
        /\ v # wlArg[r]
        /\ ~wlDb[wlArg[r]].is_verified
        /\ wlDb[v].is_primary /\ wlDb[v].is_verified /\ ~wlDb[v].deleted
        /\ wlAcct = v

\* request r commits, in this step, the verification of wallet w, and no
\* other wallet of the user is verified: w is the first verified wallet
CommitsFirstVerified(r, w) ==
    /\ wlPc[r] = "mv_commit"
    /\ wlArg[r] = w
    /\ w \in wlDirty[r]
    /\ wlPend[r][w].is_verified /\ ~wlDb[w].is_verified
    /\ wlRet' = WlReturned("ok", FALSE) /\ wlPc'[r] = "idle"
    /\ \A v \in Wallets \ {w} : ~(wlDb[v].is_verified /\ ~wlDb[v].deleted)

\* the three changes are committed together
VerifiedPrimaryAndPointer(w) ==
    /\ wlDb'[w].is_verified
    /\ wlDb'[w].is_primary
    /\ wlAcct' = w

\* C26 as stated: whenever the verification of the first verified wallet is
\* committed, is_verified, is_primary and the account's primary_wallet_id
\* are committed with it
C26_FirstVerifiedAllThree ==
    [][\A r \in Requests : \A w \in Wallets :
          CommitsFirstVerified(r, w) => VerifiedPrimaryAndPointer(w)]_vars

\* the step is a SetPrimary call of r on wallet w, unverified when it is read
SetPrimaryOnUnverified(r, w) ==
    /\ ~wlDb[w].is_verified /\ ~wlDb[w].deleted
    /\ \E userDeleted \in BOOLEAN : SetPrimary(r, w, TRUE, userDeleted)

\* C27: every wallet with is_primary = true has is_verified = true, and a
\* SetPrimary call on an unverified wallet returns the InvalidInput error
\* "must be verified" and changes no wallet and not the account pointer
C27_PrimaryIsVerified ==
    /\ [](\A w \in Wallets : wlDb[w].is_primary => wlDb[w].is_verified)
    /\ [][\A r \in Requests : \A w \in Wallets :
             SetPrimaryOnUnverified(r, w)
                 => /\ wlPc'[r] = "idle"
                    /\ wlRet' = WlReturned(MustBeVerified, FALSE)
                    /\ wlDb' = wlDb /\ wlAcct' = wlAcct]_vars

\* SetPrimary on an unverified wallet has been rejected while another wallet
\* of the user is the verified primary one
C27_Witness ==
    \E r \in Requests : \E w \in Wallets :
        /\ wlPc[r] = "idle" /\ wlRet = WlReturned(MustBeVerified, FALSE)
        /\ ~wlDb[w].is_verified
        /\ \E v \in Wallets \ {w} : wlDb[v].is_primary /\ wlDb[v].is_verified

\* wallet w is the committed primary wallet
IsPrimaryWallet(w) == wlDb[w].is_primary /\ ~wlDb[w].deleted

\* C28: no soft-deleted wallet has is_primary = true; no step deletes a
\* wallet that is primary; DeleteWallet on the primary wallet returns
\* InvalidInput and changes nothing, at its first read and also at the
\* re-fetch after an update that matched no row because the wallet became
\* primary after that read; when the wallet is no longer primary at the
\* re-fetch, and not deleted, the call returns the Internal error
C28_PrimaryNeverDeleted ==
    /\ [](\A w \in Wallets : wlDb[w].deleted => ~wlDb[w].is_primary)
    /\ [][\A w \in Wallets : IsPrimaryWallet(w) => ~wlDb'[w].deleted]_vars
    /\ [][\A r \in Requests : \A w \in Wallets :
             (IsPrimaryWallet(w) /\ DeleteWallet(r, w, TRUE))
                 => /\ wlPc'[r] = "idle"
                    /\ wlRet' = WlReturned(CannotDeletePrimary, FALSE)
                    /\ wlDb' = wlDb]_vars
    /\ [][\A r \in Requests :
             /\ (DelUpdate(r) /\ IsPrimaryWallet(wlArg[r]))
                    => wlPc'[r] = "del_refetch" /\ wlDb' = wlDb
             /\ (DelRefetch(r, TRUE) /\ IsPrimaryWallet(wlArg[r]))
                    => /\ wlRet' = WlReturned(NowPrimary, FALSE)
                       /\ wlDb' = wlDb
             /\ (DelRefetch(r, TRUE) /\ ~wlDb[wlArg[r]].deleted
                    /\ ~IsPrimaryWallet(wlArg[r]))
                    => /\ wlRet' = WlReturned(FailedToDelete, FALSE)
                       /\ wlDb' = wlDb]_vars

\* a DeleteWallet that read the wallet before it became primary has been
\* rejected at its update: the wallet is primary and not deleted
C28_Witness ==
    \E r \in Requests :
        /\ wlPc[r] = "idle" /\ wlRet.ret = NowPrimary
        /\ \E w \in Wallets : IsPrimaryWallet(w)

\* the step is a VerifyWallet call of r on wallet w, committed verified, with
\* signature sig and nonce n, whose read of the wallet succeeds
VerifiesAgain(r, w, sig, n) ==
    /\ wlDb[w].is_verified /\ ~wlDb[w].deleted
    /\ \E t \in WalletTimestamps : VerifyWallet(r, w, sig, n, t, TRUE)

\* the call returns success and leaves nonce store, wallets and account alone
SuccessNothingTouched(r) ==
    /\ wlPc'[r] = "idle" /\ wlRet'.ret = "ok"
    /\ wlNonces' = wlNonces /\ wlDb' = wlDb /\ wlAcct' = wlAcct

\* C30 as stated: VerifyWallet on an already verified wallet returns success
\* and touches neither a nonce nor the wallet, whatever nonce and signature
\* it carries
C30_VerifiedShortCircuit ==
    [][\A r \in Requests : \A w \in Wallets : \A sig \in WalletSignatures :
       \A n \in WalletNonces :
          VerifiesAgain(r, w, sig, n) => SuccessNothingTouched(r)]_vars

\* C30: VerifyWallet on an already verified wallet returns success and
\* touches neither a nonce nor the wallet, whatever the nonce and whatever
\* the signature among those parseSignature accepts; with a signature that
\* parseSignature rejects it returns InvalidInput, also touching nothing
C30_VerifiedShortCircuitParsed ==
    [][\A r \in Requests : \A w \in Wallets : \A sig \in WalletSignatures :
       \A n \in WalletNonces :
          VerifiesAgain(r, w, sig, n)
              => IF sig = "malformed"
                 THEN /\ wlRet'.ret = "InvalidInput: Invalid signature format"
                      /\ wlNonces' = wlNonces /\ wlDb' = wlDb /\ wlAcct' = wlAcct
                 ELSE SuccessNothingTouched(r)]_vars

\* a VerifyWallet on a verified wallet has returned at the already-verified
\* check, and the nonce store holds a key of that wallet, which a repeated
\* request would carry again
C30_Witness ==
    \E r \in Requests :
        /\ wlPc[r] = "idle" /\ wlRet = WlReturned("ok", TRUE)
        /\ \E w \in Wallets, n \in WalletNonces :
              wlDb[w].is_verified /\ Present(wlNonces, buildKey(w, n), 0)

(***************************************************************************)
(*                  PAYMENTS OVER THE LEDGER AND BALANCES                  *)
(***************************************************************************)

\* Amounts are counted in whole units.  The payer opens with OpeningBalance,
\* every other account with nothing; no account's ledger totals pass
\* MaxPosted.
MaxPayAmount == 2
OpeningBalance == 2
MaxPosted == 6

Payer == "A"
Merchant == "M"
FeeAccount == "F"
Escrow == "Escrow"
PyAccounts == {Payer, Merchant, FeeAccount, Escrow}
Payments == {"p1", "p2"}
PayAmounts == 1..MaxPayAmount
\* plain postings between the payer and the merchant
Transfers == {<<Payer, Merchant>>, <<Merchant, Payer>>}

Opening(a) == IF a = Payer THEN OpeningBalance ELSE 0

\* a ledger entry as Post takes it
PyEntry(account, type, amount) ==
    [AccountID |-> account, EntryType |-> type, Amount |-> amount]

\* hold(account, amount): moves amount from available to held
HoldBalance(avail, held, account, amount) ==
    IF avail[account] < amount
    THEN [avail |-> avail, held |-> held, err |-> "InsufficientBalance"]
    ELSE [avail |-> [avail EXCEPT ![account] = @ - amount],
          held |-> [held EXCEPT ![account] = @ + amount], err |-> "nil"]

\* release(account, amount): moves amount from held back to available
ReleaseBalance(avail, held, account, amount) ==
    IF held[account] < amount
    THEN [avail |-> avail, held |-> held, err |-> "InsufficientHold"]
    ELSE [avail |-> [avail EXCEPT ![account] = @ + amount],
          held |-> [held EXCEPT ![account] = @ - amount], err |-> "nil"]

\* capture(account, amount): removes amount from held for good
CaptureBalance(avail, held, account, amount) ==
    IF held[account] < amount
    THEN [avail |-> avail, held |-> held, err |-> "InsufficientHold"]
    ELSE [avail |-> avail,
          held |-> [held EXCEPT ![account] = @ - amount], err |-> "nil"]

\* the ledger row of entry e added to the account's totals
AddRow(ledger, e) ==
    [ledger EXCEPT ![e.AccountID][e.EntryType] = @ + e.Amount]

\* the loop of Post from entry i on: updateAccountBalance, which goes by the
\* entry type alone and writes the available balance alone, then the ledger
\* row; the first error ends it
RECURSIVE PostFrom(_, _, _, _)
PostFrom(avail, ledger, entries, i) ==
    IF i > Len(entries)
    THEN [avail |-> avail, ledger |-> ledger, err |-> "nil"]
    ELSE LET u == updateAccountBalance(avail, entries[i])
         IN  IF u.err # "nil"
             THEN [avail |-> avail, ledger |-> ledger, err |-> u.err]
             ELSE PostFrom(u.bal, AddRow(ledger, entries[i]), entries, i + 1)

\* Post as one transaction over the committed state: validation, the loop,
\* then commit; an error or a failed commit leaves the committed state alone
PostAll(avail, ledger, entries, dbOk) ==
    LET v == Validate(entries)
        r == PostFrom(avail, ledger, entries, 1)
        same == [avail |-> avail, ledger |-> ledger]
    IN  IF v # "nil" THEN same @@ [err |-> v]
        ELSE IF r.err # "nil" THEN same @@ [err |-> r.err]
        ELSE IF ~dbOk THEN same @@ [err |-> "DBError"]
        ELSE r

\* SumLedgerEntriesByType: an account's total credits and total debits
SumLedgerEntriesByType(a) ==
    [total_credits |-> pyLedger[a]["CREDIT"], total_debits |-> pyLedger[a]["DEBIT"]]

WithinPosted(ledger) ==
    \A a \in PyAccounts :
        ledger[a]["DEBIT"] <= MaxPosted /\ ledger[a]["CREDIT"] <= MaxPosted

PyInit ==
    /\ pyAvail = [a \in PyAccounts |-> Opening(a)]
    /\ pyHeld = [a \in PyAccounts |-> 0]
    /\ pyLedger = [a \in PyAccounts |-> [t \in {"DEBIT", "CREDIT"} |-> 0]]
    /\ pyStatus = [p \in Payments |-> "PENDING"]
    /\ pyAmount = [p \in Payments |-> 0]
    /\ pyFee = [p \in Payments |-> 0]
    /\ pyRet = "nil"

\* the committed balances and ledger after a posting returned r, with the
\* held balances held
PyCommit(r, held) ==
    /\ WithinPosted(r.ledger)
    /\ pyAvail' = r.avail
    /\ pyHeld' = held
    /\ pyLedger' = r.ledger
    /\ pyRet' = r.err

\* an operation that failed with err: nothing is committed
PyFail(err) ==
    /\ pyRet' = err
    /\ UNCHANGED <<pyAvail, pyHeld, pyLedger>>

\* an operation refused in the payment's present state
PyRefuse ==
    /\ pyRet' = "InvalidStateTransition"
    /\ UNCHANGED <<pyAvail, pyHeld, pyLedger, pyStatus, pyAmount, pyFee>>

\* authorize: the payer's amount goes on hold and is booked to escrow.  Post
\* takes the payer's DEBIT entry out of the available balance, which is the
\* available side of the hold; the held side is the hold's, in the same
\* transaction
Authorize(p, amount, dbOk) ==
    IF pyStatus[p] # "PENDING" THEN PyRefuse
    ELSE LET h == HoldBalance(pyAvail, pyHeld, Payer, amount)
             r == PostAll(pyAvail, pyLedger,
                          <<PyEntry(Payer, "DEBIT", amount),
                            PyEntry(Escrow, "CREDIT", amount)>>, dbOk)
             done == h.err = "nil" /\ r.err = "nil"
         IN  /\ IF done THEN PyCommit(r, h.held)
                ELSE PyFail(IF h.err # "nil" THEN h.err ELSE r.err)
             /\ pyStatus' = IF done
                            THEN [pyStatus EXCEPT ![p] = "AUTHORIZED"] ELSE pyStatus
             /\ pyAmount' = IF done
                            THEN [pyAmount EXCEPT ![p] = amount] ELSE pyAmount
             /\ UNCHANGED pyFee

\* capture: escrow pays the merchant and the fee account, and the payer's
\* hold is removed
Capture(p, fee, dbOk) ==
    IF pyStatus[p] # "AUTHORIZED" THEN PyRefuse
    ELSE LET amount == pyAmount[p]
             c == CaptureBalance(pyAvail, pyHeld, Payer, amount)
             r == PostAll(pyAvail, pyLedger,
                          <<PyEntry(Escrow, "DEBIT", amount),
                            PyEntry(Merchant, "CREDIT", amount - fee)>>
                          \o (IF fee > 0
                              THEN <<PyEntry(FeeAccount, "CREDIT", fee)>>
                              ELSE <<>>), dbOk)
             done == c.err = "nil" /\ r.err = "nil"
         IN  /\ fee < amount
             /\ IF done THEN PyCommit(r, c.held)
                ELSE PyFail(IF c.err # "nil" THEN c.err ELSE r.err)
             /\ pyStatus' = IF done
                            THEN [pyStatus EXCEPT ![p] = "CAPTURED"] ELSE pyStatus
             /\ pyFee' = IF done THEN [pyFee EXCEPT ![p] = fee] ELSE pyFee
             /\ UNCHANGED pyAmount

\* void: escrow gives the amount back and the payer's hold is released.  Post
\* puts the payer's CREDIT entry into the available balance, which is the
\* available side of the release; the held side is the release's
Void(p, dbOk) ==
    IF pyStatus[p] # "AUTHORIZED" THEN PyRefuse
    ELSE LET amount == pyAmount[p]
             l == ReleaseBalance(pyAvail, pyHeld, Payer, amount)
             r == PostAll(pyAvail, pyLedger,
                          <<PyEntry(Escrow, "DEBIT", amount),
                            PyEntry(Payer, "CREDIT", amount)>>, dbOk)
             done == l.err = "nil" /\ r.err = "nil"
         IN  /\ IF done THEN PyCommit(r, l.held)
                ELSE PyFail(IF l.err # "nil" THEN l.err ELSE r.err)
             /\ pyStatus' = IF done
                            THEN [pyStatus EXCEPT ![p] = "VOIDED"] ELSE pyStatus
             /\ UNCHANGED <<pyAmount, pyFee>>

\* refund: the merchant and the fee account pay the payer back
Refund(p, dbOk) ==
    IF pyStatus[p] # "CAPTURED" THEN PyRefuse
    ELSE LET amount == pyAmount[p]
             fee == pyFee[p]
             r == PostAll(pyAvail, pyLedger,
                          <<PyEntry(Merchant, "DEBIT", amount - fee)>>
                          \o (IF fee > 0
                              THEN <<PyEntry(FeeAccount, "DEBIT", fee)>>
                              ELSE <<>>)
                          \o <<PyEntry(Payer, "CREDIT", amount)>>, dbOk)
         IN  /\ PyCommit(r, pyHeld)
             /\ pyStatus' = IF r.err = "nil"
                            THEN [pyStatus EXCEPT ![p] = "REFUNDED"] ELSE pyStatus
             /\ UNCHANGED <<pyAmount, pyFee>>

\* a plain posting: one account debited, another credited
Transfer(from, to, amount, dbOk) ==
    LET r == PostAll(pyAvail, pyLedger,
                     <<PyEntry(from, "DEBIT", amount),
                       PyEntry(to, "CREDIT", amount)>>, dbOk)
    IN  /\ PyCommit(r, pyHeld)
        /\ UNCHANGED <<pyStatus, pyAmount, pyFee>>

PyNext ==
    \/ \E p \in Payments, n \in PayAmounts, ok \in BOOLEAN :
           Authorize(p, n, ok) /\ PyFrame
    \/ \E p \in Payments, fee \in 0..1, ok \in BOOLEAN : Capture(p, fee, ok) /\ PyFrame
    \/ \E p \in Payments, ok \in BOOLEAN : Void(p, ok) /\ PyFrame
    \/ \E p \in Payments, ok \in BOOLEAN : Refund(p, ok) /\ PyFrame
    \/ \E t \in Transfers, n \in PayAmounts, ok \in BOOLEAN :
           Transfer(t[1], t[2], n, ok) /\ PyFrame

(***************************************************************************)
(* Payment claims                                                          *)
(***************************************************************************)

\* C20: at every instant between operations, for every account, the total
\* of its ledger credits minus the total of its ledger debits equals its
\* available balance plus its held balance, minus its opening balance
C20_LedgerMatchesBalances ==
    \A a \in PyAccounts :
        LET s == SumLedgerEntriesByType(a)
        IN  s.total_credits - s.total_debits
                = (pyAvail[a] + pyHeld[a]) - Opening(a)

(***************************************************************************)
(*            INVENTORY RESERVATION UNDER THE DISTRIBUTED LOCK             *)
(***************************************************************************)

\* The lock's TTL (30 s in the code) and the horizon of the clock, in ticks.
InventoryLockTtl == 1
MaxIvNow == 2

Orders == {"o1", "o2"}
InventoryKey == "inventory:1"
\* the quantity an order asks for: one unit
ReserveQtys == {1}

\* NewLock: each Reserve call has its own instance, with its own owner token
OrderLock(o) == [key |-> InventoryKey, owner |-> <<o, InventoryKey>>]

NoRow == [quantity |-> 0, reserved |-> 0, version |-> 0]

\* available := inv.Quantity - inv.ReservedQuantity
Available(inv) == inv.quantity - inv.reserved

\* repo.Reserve: the update conditional on the version read; no row matched
\* is the optimistic-lock error; chk_available guards the row
RepoReserve(inv, qty, version) ==
    IF inv.version # version THEN [inv |-> inv, err |-> "ErrOptimisticLock"]
    ELSE IF inv.reserved + qty > inv.quantity THEN [inv |-> inv, err |-> "DBError"]
    ELSE [inv |-> [inv EXCEPT !.reserved = @ + qty, !.version = @ + 1],
          err |-> "nil"]

IvInit ==
    /\ ivStore = [k \in {InventoryKey} |-> NoEntry]
    /\ ivNow = 0
    /\ ivInv = [quantity |-> 1, reserved |-> 0, version |-> 0]
    /\ ivPc = [o \in Orders |-> "idle"]
    /\ ivRead = [o \in Orders |-> NoRow]
    /\ ivRet = [o \in Orders |-> "none"]
    /\ ivFailed = FALSE

\* Time passes; a key whose TTL has elapsed is gone
IvTick ==
    /\ ivNow < MaxIvNow
    /\ ivNow' = ivNow + 1
    /\ ivStore' = [k \in {InventoryKey} |->
                     IF Present(ivStore, k, ivNow + 1) THEN ivStore[k] ELSE NoEntry]
    /\ UNCHANGED <<ivInv, ivPc, ivRead, ivRet, ivFailed>>

\* Reserve, step 1: lock.Acquire; any error returns errors.LockFailed
ReserveAcquire(o, redisOk) ==
    /\ ivPc[o] = "idle"
    /\ LET r == IF redisOk THEN Acquire(ivStore, OrderLock(o), InventoryLockTtl, ivNow)
                ELSE [store |-> ivStore, err |-> "RedisError"]
       IN  /\ ivStore' = r.store
           /\ IF r.err = "nil"
              THEN ivPc' = [ivPc EXCEPT ![o] = "locked"] /\ UNCHANGED ivRet
              ELSE /\ ivPc' = [ivPc EXCEPT ![o] = "done"]
                   /\ ivRet' = [ivRet EXCEPT ![o] = "LOCK_FAILED"]
    /\ ivFailed' = (ivFailed \/ ~redisOk)
    /\ UNCHANGED <<ivNow, ivInv, ivRead>>

\* Reserve, step 2: repo.Get
ReserveGet(o, dbOk) ==
    /\ ivPc[o] = "locked"
    /\ IF dbOk
       THEN /\ ivRead' = [ivRead EXCEPT ![o] = ivInv]
            /\ ivPc' = [ivPc EXCEPT ![o] = "read"]
            /\ UNCHANGED ivRet
       ELSE /\ ivRet' = [ivRet EXCEPT ![o] = "DBError"]
            /\ ivPc' = [ivPc EXCEPT ![o] = "unlock"]
            /\ UNCHANGED ivRead
    /\ ivFailed' = (ivFailed \/ ~dbOk)
    /\ UNCHANGED <<ivStore, ivNow, ivInv>>

\* Reserve, step 3: the stock check on the row read, then repo.Reserve with
\* the version read
ReserveUpdate(o, qty, dbOk) ==
    /\ ivPc[o] = "read"
    /\ IF Available(ivRead[o]) < qty
       THEN /\ ivRet' = [ivRet EXCEPT ![o] = "INSUFFICIENT_STOCK"]
            /\ UNCHANGED <<ivInv, ivFailed>>
       ELSE IF ~dbOk
       THEN /\ ivRet' = [ivRet EXCEPT ![o] = "DBError"]
            /\ ivFailed' = TRUE
            /\ UNCHANGED ivInv
       ELSE LET r == RepoReserve(ivInv, qty, ivRead[o].version)
            IN  /\ ivInv' = r.inv
                /\ ivRet' = [ivRet EXCEPT ![o] = r.err]
                /\ UNCHANGED ivFailed
    /\ ivPc' = [ivPc EXCEPT ![o] = "unlock"]
    /\ UNCHANGED <<ivStore, ivNow, ivRead>>

\* Reserve, on return: the deferred lock.Release, its result dropped
ReserveUnlock(o, redisOk) ==
    /\ ivPc[o] = "unlock"
    /\ ivStore' = IF redisOk THEN LockRelease(ivStore, OrderLock(o), ivNow).store
                  ELSE ivStore
    /\ ivPc' = [ivPc EXCEPT ![o] = "done"]
    /\ UNCHANGED <<ivNow, ivInv, ivRead, ivRet, ivFailed>>

IvNext ==
    \/ IvTick /\ IvFrame
    \/ \E o \in Orders, ok \in BOOLEAN : ReserveAcquire(o, ok) /\ IvFrame
    \/ \E o \in Orders, ok \in BOOLEAN : ReserveGet(o, ok) /\ IvFrame
    \/ \E o \in Orders, qty \in ReserveQtys, ok \in BOOLEAN :
           ReserveUpdate(o, qty, ok) /\ IvFrame
    \/ \E o \in Orders, ok \in BOOLEAN : ReserveUnlock(o, ok) /\ IvFrame

(***************************************************************************)
(* Inventory claims                                                        *)
(***************************************************************************)

\* both Reserve calls have returned
BothReturned == \A o \in Orders : ivPc[o] = "done"

\* exactly one order committed and the other returned one of errs
OneCommitOtherIn(errs) ==
    \E o \in Orders :
        /\ ivRet[o] = "nil"
        /\ \A p \in Orders \ {o} : ivRet[p] \in errs

\* C16: reserved never exceeds quantity, and once both orders have returned
\* exactly one has committed reserved = 1 while the other failed with the
\* lock failure or with insufficient stock; stated for the runs in which no
\* lock or database command fails, where the orders return nothing but
\* what Reserve decides
C16_OneCommitsOtherLockOrStock ==
    /\ ivInv.reserved <= ivInv.quantity
    /\ (BothReturned /\ ~ivFailed) =>
           /\ ivInv.reserved = 1
           /\ OneCommitOtherIn({"LOCK_FAILED", "INSUFFICIENT_STOCK"})

\* C37: when fn returned an error and the rollback fails too, the error the
\* runner returns carries the text of fn's error and of the rollback error
C37_BothErrorsSurface ==
    [][(uwFnRes = "err" /\ UowFinish(FALSE))
          => {"fn", "rollback"} \subseteq uwRet'.msgs]_vars

\* WithTransaction has returned after fn failed and the rollback failed
C37_Witness ==
    /\ uwPc = "returned"
    /\ uwKind = "WithTransaction"
    /\ uwFnRes = "err"
    /\ uwRet = RollbackFailed("WithTransaction")
    /\ uwRet # FnErr

(***************************************************************************)
(*             ORDER CREATION UNDER SEVERAL DISTRIBUTED LOCKS              *)
(***************************************************************************)

\* The lock's TTL (30 s in the code) and the horizon of the clock, in ticks.
OrderLockTtl == 2
MaxOcNow == 2

OrderCallers == {"c1", "c2"}
InventoryIds == {1, 2}
\* req.Items: the inventories of one request, each once, in any order
ItemLists == {<<1>>, <<2>>, <<1, 2>>, <<2, 1>>}

\* the Create calls of one caller
CallNos == {1}

ResourceOf(id) == IF id = 1 THEN "inventory:1" ELSE "inventory:2"

\* the owner tokens NewLock draws: a fresh one in every Create call
OwnerTokens == [c1 |-> <<"c1-1">>, c2 |-> <<"c2-1">>]

\* locks[i] = NewLock(..., "inventory:<id>", ...) in caller c's n-th call
CallerLock(c, n, id) == [key |-> ResourceOf(id), owner |-> OwnerTokens[c][n]]

\* ids with x put in before the first element greater than x
RECURSIVE InsertSorted(_, _)
InsertSorted(x, ids) ==
    IF ids = <<>> THEN <<x>>
    ELSE IF x <= Head(ids) THEN <<x>> \o ids
    ELSE <<Head(ids)>> \o InsertSorted(x, Tail(ids))

\* sortedInventoryIDs: the ids in ascending order
RECURSIVE sortedInventoryIDs(_)
sortedInventoryIDs(items) ==
    IF items = <<>> THEN <<>>
    ELSE InsertSorted(Head(items), sortedInventoryIDs(Tail(items)))

\* the ids taken in the order of the request
RequestOrder(items) == items

\* inventoryIDs := sortedInventoryIDs(req.Items)
InventoryIDsOf(items) == sortedInventoryIDs(items)

OcInit ==
    /\ ocStore = [r \in Resources |-> NoEntry]
    /\ ocNow = 0
    /\ ocPc = [c \in OrderCallers |-> "idle"]
    /\ ocItems = [c \in OrderCallers |-> <<>>]
    /\ ocIds = [c \in OrderCallers |-> <<>>]
    /\ ocIdx = [c \in OrderCallers |-> 1]
    /\ ocRelTo = [c \in OrderCallers |-> 0]
    /\ ocRet = [c \in OrderCallers |-> "none"]
    /\ ocCalls = [c \in OrderCallers |-> 0]
    /\ ocRelErr = [c \in OrderCallers |-> FALSE]

\* Time passes; keys whose TTL has elapsed are gone
OcTick ==
    /\ ocNow < MaxOcNow
    /\ ocNow' = ocNow + 1
    /\ ocStore' = [r \in Resources |->
                     IF Present(ocStore, r, ocNow + 1) THEN ocStore[r] ELSE NoEntry]
    /\ UNCHANGED <<ocPc, ocItems, ocIds, ocIdx, ocRelTo, ocRet, ocCalls, ocRelErr>>

\* Create is called: the ids are put in locking order
CreateBegin(c, items) ==
    /\ ocPc[c] = "idle"
    /\ ocCalls[c] + 1 \in CallNos
    /\ ocCalls' = [ocCalls EXCEPT ![c] = @ + 1]
    /\ ocPc' = [ocPc EXCEPT ![c] = "acquire"]
    /\ ocItems' = [ocItems EXCEPT ![c] = items]
    /\ ocIds' = [ocIds EXCEPT ![c] = InventoryIDsOf(items)]
    /\ ocIdx' = [ocIdx EXCEPT ![c] = 1]
    /\ ocRelTo' = [ocRelTo EXCEPT ![c] = 0]
    /\ ocRet' = [ocRet EXCEPT ![c] = "none"]
    /\ ocRelErr' = [ocRelErr EXCEPT ![c] = FALSE]
    /\ UNCHANGED <<ocStore, ocNow>>

\* for j := 0; j < i; j++: the locks released when the i-th Acquire failed
EarlierLocks(i) == i - 1

\* one iteration of the locking loop: locks[i].Acquire; on an error the locks
\* acquired before are to be released and Create returns the error
CreateAcquire(c, redisOk) ==
    /\ ocPc[c] = "acquire"
    /\ LET i == ocIdx[c]
           r == IF redisOk
                THEN Acquire(ocStore, CallerLock(c, ocCalls[c], ocIds[c][i]),
                             OrderLockTtl, ocNow)
                ELSE [store |-> ocStore, err |-> "RedisError"]
       IN  /\ ocStore' = r.store
           /\ IF r.err # "nil"
              THEN /\ ocPc' = [ocPc EXCEPT ![c] = "release"]
                   /\ ocRet' = [ocRet EXCEPT ![c] = r.err]
                   /\ ocRelTo' = [ocRelTo EXCEPT ![c] = EarlierLocks(i)]
                   /\ ocIdx' = [ocIdx EXCEPT ![c] = 1]
              ELSE IF i = Len(ocIds[c])
              THEN /\ ocPc' = [ocPc EXCEPT ![c] = "tx"]
                   /\ ocIdx' = [ocIdx EXCEPT ![c] = 1]
                   /\ UNCHANGED <<ocRet, ocRelTo>>
              ELSE /\ ocIdx' = [ocIdx EXCEPT ![c] = i + 1]
                   /\ UNCHANGED <<ocPc, ocRet, ocRelTo>>
    /\ UNCHANGED <<ocNow, ocItems, ocIds, ocCalls, ocRelErr>>

\* WithTransaction has returned; the deferred function is to release every
\* lock
CreateTransaction(c, txOk) ==
    /\ ocPc[c] = "tx"
    /\ ocPc' = [ocPc EXCEPT ![c] = "release"]
    /\ ocRet' = [ocRet EXCEPT ![c] = IF txOk THEN "nil" ELSE "DBError"]
    /\ ocRelTo' = [ocRelTo EXCEPT ![c] = Len(ocIds[c])]
    /\ ocIdx' = [ocIdx EXCEPT ![c] = 1]
    /\ UNCHANGED <<ocStore, ocNow, ocItems, ocIds, ocCalls, ocRelErr>>

\* one Release of the loop over the locks, its result dropped; after the
\* last one Create returns
CreateRelease(c, redisOk) ==
    /\ ocPc[c] = "release"
    /\ IF ocIdx[c] > ocRelTo[c]
       THEN /\ ocPc' = [ocPc EXCEPT ![c] = "idle"]
            /\ UNCHANGED <<ocStore, ocIdx, ocRelErr>>
       ELSE /\ ocRelErr' = [ocRelErr EXCEPT ![c] = @ \/ ~redisOk]
            /\ ocStore' = IF redisOk
                          THEN LockRelease(ocStore,
                                   CallerLock(c, ocCalls[c], ocIds[c][ocIdx[c]]),
                                   ocNow).store
                          ELSE ocStore
            /\ ocIdx' = [ocIdx EXCEPT ![c] = @ + 1]
            /\ UNCHANGED ocPc
    /\ UNCHANGED <<ocNow, ocItems, ocIds, ocRelTo, ocRet, ocCalls>>

\* the steps of caller c's Create once it is called
CreateStep(c) ==
    \/ \E ok \in BOOLEAN : CreateAcquire(c, ok) /\ OcFrame
    \/ \E ok \in BOOLEAN : CreateTransaction(c, ok) /\ OcFrame
    \/ \E ok \in BOOLEAN : CreateRelease(c, ok) /\ OcFrame

OcNext ==
    \/ OcTick /\ OcFrame
    \/ \E c \in OrderCallers, items \in ItemLists : CreateBegin(c, items) /\ OcFrame
    \/ \E c \in OrderCallers : CreateStep(c)

(***************************************************************************)
(* Order-creation claims                                                   *)
(***************************************************************************)

\* the resources whose key holds the owner token of caller c's running call
Holding(c) ==
    IF ocPc[c] = "idle" THEN {}
    ELSE {r \in Resources : \E id \in InventoryIds :
              r = ResourceOf(id)
              /\ OwnedBy(ocStore, CallerLock(c, ocCalls[c], id), ocNow)}

\* the resources caller c has yet to acquire in its locking loop
Needs(c) ==
    IF ocPc[c] = "acquire"
    THEN {ResourceOf(ocIds[c][k]) : k \in ocIdx[c]..Len(ocIds[c])}
    ELSE {}

\* c needs a lock that d holds
WaitsFor(c, d) == c # d /\ Needs(c) \cap Holding(d) # {}

\* a set of callers each of which needs a lock another one of them holds
LockCycle ==
    \E S \in SUBSET OrderCallers :
        S # {} /\ \A c \in S : \E d \in S : WaitsFor(c, d)

\* C17: with the locks taken in ascending id order there is never a cycle of
\* callers each holding a lock another one needs, and every locking loop
\* that has begun comes to an end
C17_NoDeadlock ==
    /\ [](~LockCycle)
    /\ \A c \in OrderCallers : (ocPc[c] = "acquire") ~> (ocPc[c] # "acquire")

\* two callers whose requests name both inventories, one in descending
\* order: one holds inventory 1 and the other needs it
C17_Witness ==
    \E c \in OrderCallers, d \in OrderCallers :
        /\ ocItems[c] = <<2, 1>>
        /\ Len(ocItems[d]) = 2
        /\ WaitsFor(c, d)
        /\ ocIdx[c] = 1

\* C40: a Create that has returned has left its owner token in no lock
\* key: not in the locks taken before an Acquire that failed, not in the
\* locks of a full acquisition
C40_NoTokenLeftAtReturn ==
    \A c \in OrderCallers :
        (ocPc[c] = "idle" /\ ocCalls[c] > 0)
            => \A r \in Resources : ocStore[r].val # OwnerTokens[c][ocCalls[c]]

(***************************************************************************)
(*        ORDER CREATION: BUSINESS WRITES AND THE OUTBOX EVENT             *)
(***************************************************************************)

CreateRequests == {"q1", "q2"}
\* the statement of fn after the one at pc
NextStatement(pc) ==
    IF pc = "orders" THEN "order_items"
    ELSE IF pc = "order_items" THEN "inventories"
    ELSE IF pc = "inventories" THEN "outbox"
    ELSE "fnOk"

\* a write through the connection pool: committed at once
WriteOutsideTx(pending, db, q, table) ==
    [pending |-> pending, db |-> db \cup {<<q, table>>}]

\* a write through tx: part of the open transaction
WriteInTx(pending, db, q, table) ==
    [pending |-> pending \cup {table}, db |-> db]

OtInit ==
    /\ otPc = [q \in CreateRequests |-> "idle"]
    /\ otPending = [q \in CreateRequests |-> {}]
    /\ otDb = {}
    /\ otRet = [q \in CreateRequests |-> "none"]
    /\ otWrote = [q \in CreateRequests |-> {}]

\* Create is called: WithTransaction begins a transaction and calls fn (the
\* inventory locks taken before and released after touch no table)
OrderCreateBegin(q, beginOk) ==
    /\ otPc[q] = "idle"
    /\ otRet[q] = "none"
    /\ IF beginOk
       THEN otPc' = [otPc EXCEPT ![q] = "orders"] /\ UNCHANGED otRet
       ELSE /\ otPc' = [otPc EXCEPT ![q] = "idle"]
            /\ otRet' = [otRet EXCEPT ![q] = "begin failed"]
    /\ UNCHANGED <<otPending, otDb, otWrote>>

\* one statement of fn: orderRepo.Create, the orderItemRepo.Create loop, the
\* inventoryRepo.Reserve loop, outboxRepo.Create; an error ends fn
OrderCreateWrite(q, ok) ==
    /\ otPc[q] \in {"orders", "order_items", "inventories", "outbox"}
    /\ IF ok
       THEN LET w == WriteInTx(otPending[q], otDb, q, otPc[q])
            IN  /\ otPending' = [otPending EXCEPT ![q] = w.pending]
                /\ otDb' = w.db
                /\ otWrote' = [otWrote EXCEPT ![q] = @ \cup {otPc[q]}]
                /\ otPc' = [otPc EXCEPT ![q] = NextStatement(otPc[q])]
       ELSE /\ otPc' = [otPc EXCEPT ![q] = "fnErr"]
            /\ UNCHANGED <<otPending, otDb, otWrote>>
    /\ UNCHANGED otRet

\* fn panics: the runner registers no deferred call, the panic reaches the
\* caller and the transaction is never committed
OrderCreatePanic(q) ==
    /\ otPc[q] \in {"orders", "order_items", "inventories", "outbox"}
    /\ otPc' = [otPc EXCEPT ![q] = "idle"]
    /\ otRet' = [otRet EXCEPT ![q] = "panic"]
    /\ otPending' = [otPending EXCEPT ![q] = {}]
    /\ UNCHANGED <<otDb, otWrote>>

\* fn has returned: WithTransaction commits or rolls back, Create returns
OrderCreateFinish(q, opOk) ==
    /\ otPc[q] \in {"fnOk", "fnErr"}
    /\ LET r == Finish(IF otPc[q] = "fnOk" THEN "ok" ELSE "err",
                       "WithTransaction", opOk)
       IN  /\ otDb' = IF r.tx = "committed"
                      THEN otDb \cup {<<q, t>> : t \in otPending[q]}
                      ELSE otDb
           /\ otRet' = [otRet EXCEPT ![q] =
                          IF r.ret = NilErr THEN "nil"
                          ELSE IF r.ret = FnErr THEN "fn error"
                          ELSE IF r.ret = CommitFailed THEN "commit failed"
                          ELSE "rollback failed"]
    /\ otPc' = [otPc EXCEPT ![q] = "idle"]
    /\ otPending' = [otPending EXCEPT ![q] = {}]
    /\ UNCHANGED otWrote

OtNext ==
    \/ \E q \in CreateRequests, ok \in BOOLEAN : OrderCreateBegin(q, ok) /\ OtFrame
    \/ \E q \in CreateRequests, ok \in BOOLEAN : OrderCreateWrite(q, ok) /\ OtFrame
    \/ \E q \in CreateRequests : OrderCreatePanic(q) /\ OtFrame
    \/ \E q \in CreateRequests, ok \in BOOLEAN : OrderCreateFinish(q, ok) /\ OtFrame

(***************************************************************************)
(* Order-transaction claims                                                *)
(***************************************************************************)

\* C25: the outbox event of a request is committed if and only if its
\* business writes (order, order items, inventory reservation) are
C25_EventIffBusinessWrite ==
    \A q \in CreateRequests :
        \A t \in {"orders", "order_items", "inventories"} :
            <<q, "outbox">> \in otDb <=> <<q, t>> \in otDb

\* one request has committed its order with the event, and another has
\* written its order and its event and ended without committing
C25_Witness ==
    \E q \in CreateRequests, p \in CreateRequests :
        /\ <<q, "orders">> \in otDb /\ <<q, "outbox">> \in otDb
        /\ otRet[p] \notin {"none", "nil"}
        /\ otWrote[p] = {"orders", "order_items", "inventories", "outbox"}
        /\ <<p, "orders">> \notin otDb /\ <<p, "outbox">> \notin otDb

(***************************************************************************)
(*              WALLET REGISTRATION AND THE ACTIVE ADDRESS KEY             *)
(***************************************************************************)

\* An address is written here as a sequence of hex digits after "0x", one
\* digit per position; "a" and "A" are the two cases of a letter digit, "1"
\* is a digit without case.  The ids of the table's rows are WalletIds.
WalletIds == {1, 2}
AddressPositions == {1, 2}
HexDigits == {"a", "A", "1"}
RegRequests == {"g1", "g2"}
Users == {"u1", "u2"}
\* the external ids a request may name: the users and one that matches no
\* user whose status is not DELETED
ExternalIds == Users \cup {"u0"}
\* GetUserByExternalID finds the user
UserFound(u) == u \in Users

RawAddresses == [AddressPositions -> HexDigits]

\* strings.ToLower on an address, digit by digit
LowerDigit(d) == IF d = "A" THEN "a" ELSE d
LowerAddress(a) == [p \in AddressPositions |-> LowerDigit(a[p])]

\* common.HexToAddress(address).Hex(): the EIP-55 form, whose case pattern is
\* a hash of the lower-case address; here the first letter digit is upper case
Checksummed(a) ==
    LET low == LowerAddress(a)
        letters == {p \in AddressPositions : low[p] = "a"}
    IN  [p \in AddressPositions |->
            IF p \in letters /\ \A q \in letters : p <= q THEN "A" ELSE low[p]]

\* ValidateEthereumAddress: all lower case, or exactly the EIP-55 form
ValidateEthereumAddress(a) == a = LowerAddress(a) \/ a = Checksummed(a)

\* uk_wallet_address_active never rejects an insert
AddressActiveNeverTaken(a) == FALSE

\* uk_wallet_address_active: address_active is the address of a row that is
\* not deleted and NULL otherwise; the collation compares without case
AddressActiveTaken(a) ==
    \E i \in 1..Len(rgRows) :
        ~rgRows[i].deleted /\ LowerAddress(rgRows[i].address) = LowerAddress(a)

\* no address, written as the address of digits "1"
NoAddress == [p \in AddressPositions |-> "1"]

\* the call returns; what it worked on is forgotten, but for the address
\* that a Conflict names
RgReturn(q, ret) ==
    /\ rgPc' = [rgPc EXCEPT ![q] = "idle"]
    /\ rgRet' = [rgRet EXCEPT ![q] = ret]
    /\ rgAddr' = [rgAddr EXCEPT ![q] = IF ret = "Conflict" THEN @ ELSE NoAddress]
    /\ rgUser' = [rgUser EXCEPT ![q] = "u1"]
    /\ rgId' = [rgId EXCEPT ![q] = 0]

RgInit ==
    /\ rgRows = <<>>
    /\ rgPc = [q \in RegRequests |-> "idle"]
    /\ rgAddr = [q \in RegRequests |-> NoAddress]
    /\ rgUser = [q \in RegRequests |-> "u1"]
    /\ rgId = [q \in RegRequests |-> 0]
    /\ rgRet = [q \in RegRequests |-> "none"]

\* RegisterWallet up to the insert: ValidateEthereumAddress, strings.ToLower,
\* GetUserByExternalID (dbOk: the read succeeds), ErrNoRows being NotFound
RegisterWallet(q, u, raw, dbOk) ==
    /\ rgPc[q] = "idle"
    /\ Len(rgRows) < Cardinality(WalletIds)
    /\ IF ~ValidateEthereumAddress(raw)
       THEN RgReturn(q, "InvalidInput")
       ELSE IF ~dbOk
       THEN RgReturn(q, "DBError")
       ELSE IF ~UserFound(u)
       THEN RgReturn(q, "NotFound: User")
       ELSE /\ rgPc' = [rgPc EXCEPT ![q] = "create"]
            /\ rgAddr' = [rgAddr EXCEPT ![q] = LowerAddress(raw)]
            /\ rgUser' = [rgUser EXCEPT ![q] = u]
            /\ rgRet' = [rgRet EXCEPT ![q] = "none"]
            /\ UNCHANGED rgId
    /\ UNCHANGED rgRows

\* CreateWallet: the INSERT; a duplicate key error is Conflict, any other
\* error DBError
CreateWallet(q, dbOk) ==
    /\ rgPc[q] = "create"
    /\ IF ~dbOk THEN RgReturn(q, "DBError") /\ UNCHANGED rgRows
       ELSE IF AddressActiveTaken(rgAddr[q])
       THEN RgReturn(q, "Conflict") /\ UNCHANGED rgRows
       ELSE IF Len(rgRows) >= Cardinality(WalletIds)
       THEN RgReturn(q, "DBError") /\ UNCHANGED rgRows
       ELSE /\ rgRows' = Append(rgRows, [user |-> rgUser[q], address |-> rgAddr[q],
                                         deleted |-> FALSE])
            /\ rgId' = [rgId EXCEPT ![q] = Len(rgRows) + 1]
            /\ rgPc' = [rgPc EXCEPT ![q] = "fetch"]
            /\ rgAddr' = [rgAddr EXCEPT ![q] = NoAddress]
            /\ rgUser' = [rgUser EXCEPT ![q] = "u1"]
            /\ UNCHANGED rgRet

\* GetWalletByID of the created row, which reads rows that are not deleted
FetchCreated(q) ==
    /\ rgPc[q] = "fetch"
    /\ RgReturn(q, IF rgRows[rgId[q]].deleted THEN "DBError" ELSE "ok")
    /\ UNCHANGED rgRows

\* DeleteWallet up to the update: the read by wallet and user including
\* deleted rows, the already-deleted return; a wallet of this table is never
\* primary, it is never verified
DeleteRegistered(q, u, i, dbOk) ==
    /\ rgPc[q] = "idle"
    /\ IF ~dbOk THEN RgReturn(q, "DBError")
       ELSE IF i > Len(rgRows) \/ rgRows[i].user # u
       THEN RgReturn(q, "NotFound")
       ELSE IF rgRows[i].deleted THEN RgReturn(q, "ok")
       ELSE /\ rgPc' = [rgPc EXCEPT ![q] = "softdelete"]
            /\ rgId' = [rgId EXCEPT ![q] = i]
            /\ rgAddr' = [rgAddr EXCEPT ![q] = NoAddress]
            /\ rgRet' = [rgRet EXCEPT ![q] = "none"]
            /\ UNCHANGED rgUser
    /\ UNCHANGED rgRows

\* SoftDeleteWallet and, when it affected no row, the re-read
SoftDeleteWallet(q) ==
    /\ rgPc[q] = "softdelete"
    /\ rgRows' = [rgRows EXCEPT ![rgId[q]].deleted = TRUE]
    /\ RgReturn(q, "ok")

RgNext ==
    \/ \E q \in RegRequests, u \in ExternalIds, raw \in RawAddresses, dbOk \in BOOLEAN :
          RegisterWallet(q, u, raw, dbOk) /\ RgFrame
    \/ \E q \in RegRequests, dbOk \in BOOLEAN : CreateWallet(q, dbOk) /\ RgFrame
    \/ \E q \in RegRequests : FetchCreated(q) /\ RgFrame
    \/ \E q \in RegRequests, u \in Users, i \in WalletIds, dbOk \in BOOLEAN :
          DeleteRegistered(q, u, i, dbOk) /\ RgFrame
    \/ \E q \in RegRequests : SoftDeleteWallet(q) /\ RgFrame

\* C29: no two rows that are not deleted have the same lower-cased address,
\* and an insert of an address that a row that is not deleted holds returns
\* Conflict and adds no row
C29_ActiveAddressUnique ==
    /\ [](\A i, j \in 1..Len(rgRows) :
             (i # j /\ ~rgRows[i].deleted /\ ~rgRows[j].deleted)
                 => LowerAddress(rgRows[i].address) # LowerAddress(rgRows[j].address))
    /\ [][\A q \in RegRequests :
             (AddressActiveTaken(rgAddr[q]) /\ CreateWallet(q, TRUE))
                 => rgRet'[q] = "Conflict" /\ rgRows' = rgRows]_vars

\* two registrations of one address ran concurrently: the first has inserted
\* its row and not yet returned, the second has failed with Conflict
C29_Witness ==
    \E q, p \in RegRequests :
        /\ q # p
        /\ rgPc[q] = "idle" /\ rgRet[q] = "Conflict"
        /\ rgPc[p] = "fetch"
        /\ ~rgRows[rgId[p]].deleted /\ rgRows[rgId[p]].address = rgAddr[q]

(***************************************************************************)
(*                 VERSIONED MUTATION: INVENTORY DEDUCT                    *)
(***************************************************************************)

\* Two callers deduct from one inventories row, statement by statement.  The
\* row opens with InitQuantity and version 1.
maxRetries == 3
InitQuantity == 4
Mutators == {"m1", "m2"}
DeductQtys == {1, 2}

\* an UPDATE that does not compare the version
DeductQuantityAnyVersion(row, qty, version) == row.quantity >= qty

\* WHERE of DeductQuantity: version = ? AND quantity >= ?
DeductQuantityWhere(row, qty, version) == row.version = version /\ row.quantity >= qty

DqInit ==
    /\ dqRow = [quantity |-> InitQuantity, version |-> 1]
    /\ dqPc = [m \in Mutators |-> "idle"]
    /\ dqI = [m \in Mutators |-> 0]
    /\ dqVer = [m \in Mutators |-> 0]
    /\ dqQty = [m \in Mutators |-> 1]
    /\ dqRet = [m \in Mutators |-> "none"]
    /\ dqDeducted = 0

DqReturn(m, ret) ==
    /\ dqPc' = [dqPc EXCEPT ![m] = "idle"]
    /\ dqRet' = [dqRet EXCEPT ![m] = ret]

\* Service.Deduct is called: i := 0
Deduct(m, qty) ==
    /\ dqPc[m] = "idle"
    /\ dqPc' = [dqPc EXCEPT ![m] = "get"]
    /\ dqI' = [dqI EXCEPT ![m] = 0]
    /\ dqQty' = [dqQty EXCEPT ![m] = qty]
    /\ dqVer' = [dqVer EXCEPT ![m] = 0]
    /\ dqRet' = [dqRet EXCEPT ![m] = "none"]
    /\ UNCHANGED <<dqRow, dqDeducted>>

\* s.repo.Get; ok: the read succeeds
DeductGet(m, ok) ==
    /\ dqPc[m] = "get"
    /\ IF ok
       THEN /\ dqVer' = [dqVer EXCEPT ![m] = dqRow.version]
            /\ dqPc' = [dqPc EXCEPT ![m] = "update"]
            /\ UNCHANGED dqRet
       ELSE DqReturn(m, "err") /\ UNCHANGED dqVer
    /\ UNCHANGED <<dqRow, dqI, dqQty, dqDeducted>>

\* Repository.DeductQuantity and the rest of the loop body: no row affected is
\* ErrOptimisticLock and the loop continues, i++, until i = maxRetries
DeductQuantity(m, ok) ==
    /\ dqPc[m] = "update"
    /\ IF ~ok
       THEN DqReturn(m, "err") /\ UNCHANGED <<dqRow, dqI, dqDeducted>>
       ELSE IF DeductQuantityWhere(dqRow, dqQty[m], dqVer[m])
       THEN /\ dqRow' = [quantity |-> dqRow.quantity - dqQty[m],
                         version |-> dqRow.version + 1]
            /\ dqDeducted' = dqDeducted + dqQty[m]
            /\ DqReturn(m, "nil")
            /\ UNCHANGED dqI
       ELSE /\ dqI' = [dqI EXCEPT ![m] = @ + 1]
            /\ IF dqI[m] + 1 < maxRetries
               THEN dqPc' = [dqPc EXCEPT ![m] = "get"] /\ UNCHANGED dqRet
               ELSE DqReturn(m, "ErrMaxRetriesExceeded")
            /\ UNCHANGED <<dqRow, dqDeducted>>
    /\ UNCHANGED <<dqVer, dqQty>>

DqNext ==
    \/ \E m \in Mutators, qty \in DeductQtys : Deduct(m, qty) /\ DqFrame
    \/ \E m \in Mutators, ok \in BOOLEAN : DeductGet(m, ok) /\ DqFrame
    \/ \E m \in Mutators, ok \in BOOLEAN : DeductQuantity(m, ok) /\ DqFrame

\* the row changes in this step
RowUpdated == dqRow' # dqRow

\* C22: a Deduct runs its read-then-update at most maxRetries times and
\* gives up only after maxRetries updates that affected no row; the row
\* changes only through an update whose read version is the row's version,
\* which it raises by 1; and no deducted quantity is lost: the row holds the
\* opening quantity less everything the successful Deducts took
C22_BoundedCasNoLostUpdate ==
    /\ [](\A m \in Mutators :
             /\ dqI[m] <= maxRetries
             /\ (dqRet[m] = "ErrMaxRetriesExceeded" <=> dqI[m] = maxRetries))
    /\ [][RowUpdated =>
             /\ dqRow'.version = dqRow.version + 1
             /\ \E m \in Mutators :
                  /\ dqPc[m] = "update" /\ dqVer[m] = dqRow.version
                  /\ dqRet'[m] = "nil"
                  /\ dqRow'.quantity = dqRow.quantity - dqQty[m]]_vars
    /\ [](dqRow.quantity + dqDeducted = InitQuantity /\ dqRow.quantity >= 0)

\* a Deduct gave up after maxRetries updates that each lost against a
\* concurrent Deduct: the row still holds what it asked for
C22_Witness ==
    \E m \in Mutators :
        /\ dqRet[m] = "ErrMaxRetriesExceeded" /\ dqI[m] = maxRetries
        /\ dqRow.quantity >= dqQty[m]
        /\ dqRow.version >= 1 + maxRetries

(***************************************************************************)
(*                       ACCOUNT BALANCE ENGINE                            *)
(***************************************************************************)

\* Two callers mutate one balances row, statement by statement.  Amounts are
\* whole units; available never passes MaxAvailable, and no mutation starts
\* once the version has reached MaxVersion.
MaxAvailable == 3
MaxVersion == 4
OpenAvailable == 2
BalanceCallers == {"b1", "b2"}
BalanceOps == {"debit", "credit", "hold", "release", "capture"}
BalanceAmounts == {1, 2}

NoSnap == [available |-> 0, held |-> 0, version |-> 0]

\* an UPDATE that does not compare the version
UpdateBalanceAnyVersion(row, version) == TRUE

\* WHERE of UpdateBalanceOptimistic: id = ? AND version = ?
UpdateBalanceOptimisticWhere(row, version) == row.version = version

\* chk_available and chk_held
BalanceChecks(row) == row.available >= 0 /\ row.held >= 0

\* does the balance as read cover the operation
Covers(op, amt, snap) ==
    CASE op \in {"debit", "hold"} -> amt <= snap.available
      [] op \in {"release", "capture"} -> amt <= snap.held
      [] OTHER -> TRUE

\* the error of an operation the balance as read does not cover
Uncovered(op) == IF op \in {"debit", "hold"} THEN "InsufficientBalance"
                 ELSE "InsufficientHold"

\* available and held after the operation, from the balance as read
Mutated(op, amt, snap) ==
    CASE op = "debit"   -> [available |-> snap.available - amt, held |-> snap.held]
      [] op = "credit"  -> [available |-> snap.available + amt, held |-> snap.held]
      [] op = "hold"    -> [available |-> snap.available - amt, held |-> snap.held + amt]
      [] op = "release" -> [available |-> snap.available + amt, held |-> snap.held - amt]
      [] OTHER          -> [available |-> snap.available, held |-> snap.held - amt]

AbInit ==
    /\ abRow = [available |-> OpenAvailable, held |-> 0, version |-> 0]
    /\ abPc = [c \in BalanceCallers |-> "idle"]
    /\ abOp = [c \in BalanceCallers |-> "debit"]
    /\ abAmt = [c \in BalanceCallers |-> 1]
    /\ abSnap = [c \in BalanceCallers |-> NoSnap]
    /\ abTries = [c \in BalanceCallers |-> 0]
    /\ abRet = [c \in BalanceCallers |-> "none"]

AbReturn(c, ret) ==
    /\ abPc' = [abPc EXCEPT ![c] = "idle"]
    /\ abRet' = [abRet EXCEPT ![c] = ret]
    /\ abSnap' = [abSnap EXCEPT ![c] = NoSnap]

\* a mutation is called
Mutate(c, op, amt) ==
    /\ abPc[c] = "idle"
    /\ abRow.version < MaxVersion
    /\ op = "credit" => abRow.available + abRow.held + amt <= MaxAvailable
    /\ abPc' = [abPc EXCEPT ![c] = "read"]
    /\ abOp' = [abOp EXCEPT ![c] = op]
    /\ abAmt' = [abAmt EXCEPT ![c] = amt]
    /\ abTries' = [abTries EXCEPT ![c] = 0]
    /\ abRet' = [abRet EXCEPT ![c] = "none"]
    /\ UNCHANGED <<abRow, abSnap>>

\* the read of (id, version) with the balances, and the check of the amount
\* against the balance as read
ReadBalance(c) ==
    /\ abPc[c] = "read"
    /\ IF Covers(abOp[c], abAmt[c], abRow)
       THEN /\ abSnap' = [abSnap EXCEPT ![c] = abRow]
            /\ abPc' = [abPc EXCEPT ![c] = "cas"]
            /\ UNCHANGED abRet
       ELSE AbReturn(c, Uncovered(abOp[c]))
    /\ UNCHANGED <<abRow, abOp, abAmt, abTries>>

\* UpdateBalanceOptimistic with the balances computed from the read; a CHECK
\* violation is Internal; no row affected is a retry, up to maxRetries runs
UpdateBalanceOptimistic(c) ==
    /\ abPc[c] = "cas"
    /\ LET new == Mutated(abOp[c], abAmt[c], abSnap[c])
       IN  IF UpdateBalanceOptimisticWhere(abRow, abSnap[c].version)
           THEN IF BalanceChecks(new)
                THEN /\ abRow' = [available |-> new.available, held |-> new.held,
                                  version |-> abRow.version + 1]
                     /\ AbReturn(c, "ok")
                     /\ UNCHANGED abTries
                ELSE AbReturn(c, "Internal") /\ UNCHANGED <<abRow, abTries>>
           ELSE /\ abTries' = [abTries EXCEPT ![c] = @ + 1]
                /\ IF abTries[c] + 1 < maxRetries
                   THEN /\ abPc' = [abPc EXCEPT ![c] = "read"]
                        /\ abSnap' = [abSnap EXCEPT ![c] = NoSnap]
                        /\ UNCHANGED abRet
                   ELSE AbReturn(c, "OptimisticConflict")
                /\ UNCHANGED abRow
    /\ UNCHANGED <<abOp, abAmt>>

AbNext ==
    \/ \E c \in BalanceCallers, op \in BalanceOps, amt \in BalanceAmounts :
          Mutate(c, op, amt) /\ AbFrame
    \/ \E c \in BalanceCallers : ReadBalance(c) /\ AbFrame
    \/ \E c \in BalanceCallers : UpdateBalanceOptimistic(c) /\ AbFrame

\* caller c runs a debit or a hold of more than the row's available balance
Overdraws(c) ==
    /\ abOp[c] \in {"debit", "hold"}
    /\ abAmt[c] > abRow.available

\* C21: available and held are never negative; a debit or hold that reads an
\* available balance below its amount returns InsufficientBalance and leaves
\* the row alone; and no debit or hold of more than the row's available
\* balance is ever applied, whatever the other caller did in between
C21_BalancesNeverNegative ==
    /\ [](abRow.available >= 0 /\ abRow.held >= 0)
    /\ [][\A c \in BalanceCallers :
             (Overdraws(c) /\ abPc[c] = "read" /\ abPc'[c] # "read")
                 => abRet'[c] = "InsufficientBalance" /\ abRow' = abRow]_vars
    /\ [][\A c \in BalanceCallers :
             (Overdraws(c) /\ abPc[c] = "cas" /\ abPc'[c] # "cas")
                 => abRet'[c] # "ok" /\ abRow' = abRow]_vars

\* a debit or hold that lost an update against the other caller, read the
\* row again and found less than its amount
C21_Witness ==
    \E c \in BalanceCallers :
        /\ abPc[c] = "idle" /\ abRet[c] = "InsufficientBalance"
        /\ abTries[c] >= 1
        /\ abOp[c] \in {"debit", "hold"} /\ abAmt[c] > abRow.available

(***************************************************************************)
(*                 USER AGGREGATE: STATUS AND KYC STATUS                   *)
(***************************************************************************)

UserRequests == {"a", "b"}
UserStatuses == {"ACTIVE", "SUSPENDED", "DELETED"}
KycStatuses == {"NONE", "PENDING", "VERIFIED", "REJECTED"}
UserOps == {"SuspendUser", "ActivateUser", "DeleteUser",
            "RequestKycVerification", "ApproveKyc", "RejectKyc"}

\* an AppError: its code and its Details, which hold the keys from and to
\* or the key reason; a key that is absent is "" (from, to) or <<>> (reason),
\* and a reason is the sequence of the pieces its text is formatted from
AppError(code) == [code |-> code, from |-> "", to |-> "", reason |-> <<>>]
InvalidStateTransition(from, to) ==
    [code |-> "InvalidStateTransition", from |-> from, to |-> to,
     reason |-> <<>>]
\* e.WithDetails(map[string]any{"reason": reason}): the map takes the place
\* of the Details e had
WithDetails(e, reason) ==
    [code |-> e.code, from |-> "", to |-> "", reason |-> reason]
NoReturn == AppError("none")
Success == AppError("nil")

\* the WHERE clauses of the status updates, on the row with the given id
UpdateUserStatusAnyWhere(row) == TRUE
UpdateUserStatusToSuspendedWhere(row) == row.status = "ACTIVE"
UpdateUserStatusToActiveWhere(row) == row.status = "SUSPENDED"
UpdateUserStatusToDeletedWhere(row) == row.status # "DELETED"

\* the WHERE clause shared by UpdateUserKycToPending, ToVerified, ToRejected
UpdateUserKycWhere(row) == row.status # "DELETED"

\* the kyc_status each KYC handler requires and the one it sets
KycFrom(op) ==
    IF op = "RequestKycVerification" THEN {"NONE", "REJECTED"} ELSE {"PENDING"}
KycTo(op) ==
    IF op = "RequestKycVerification" THEN "PENDING"
    ELSE IF op = "ApproveKyc" THEN "VERIFIED" ELSE "REJECTED"

\* an UPDATE of request r finds the row by id and waits while another
\* request's transaction holds its lock, whatever the rest of the WHERE
\* clause says of the row
UsWaits(r) == usLock \notin {"none", r}

UsInit ==
    /\ usRow = [status |-> "ACTIVE", kyc |-> "NONE"]
    /\ usAcct = "ACTIVE"
    /\ usLock = "none"
    /\ usPc = [r \in UserRequests |-> "idle"]
    /\ usOp = [r \in UserRequests |-> "none"]
    /\ usLost = [r \in UserRequests |-> FALSE]
    /\ usRet = [r \in UserRequests |-> NoReturn]

\* the handler of request r returns
UsReturn(r, ret) ==
    /\ usPc' = [usPc EXCEPT ![r] = "idle"]
    /\ usRet' = [usRet EXCEPT ![r] = ret]

\* the handler of request r goes on to its next statement
UsGoto(r, pc) ==
    /\ usPc' = [usPc EXCEPT ![r] = pc]
    /\ usRet' = [usRet EXCEPT ![r] = NoReturn]

\* a handler is called
UsCalled(r, op) ==
    /\ usPc[r] = "idle"
    /\ usOp' = [usOp EXCEPT ![r] = op]
    /\ usLost' = [usLost EXCEPT ![r] = FALSE]

\* SuspendUser up to its UPDATE: the read that includes deleted users and
\* the checks on the status read
SuspendUser(r) ==
    /\ UsCalled(r, "SuspendUser")
    /\ IF usRow.status = "DELETED" THEN UsReturn(r, AppError("NotFound"))
       ELSE IF usRow.status # "ACTIVE"
       THEN UsReturn(r, InvalidStateTransition(usRow.status, "SUSPENDED"))
       ELSE UsGoto(r, "update")
    /\ UNCHANGED <<usRow, usAcct, usLock>>

\* ActivateUser up to its UPDATE
ActivateUser(r) ==
    /\ UsCalled(r, "ActivateUser")
    /\ IF usRow.status = "DELETED"
       THEN UsReturn(r, WithDetails(InvalidStateTransition("DELETED", "ACTIVE"),
                                    <<"Deleted users cannot be reactivated">>))
       ELSE IF usRow.status # "SUSPENDED"
       THEN UsReturn(r, InvalidStateTransition(usRow.status, "ACTIVE"))
       ELSE UsGoto(r, "update")
    /\ UNCHANGED <<usRow, usAcct, usLock>>

\* UpdateUserStatusToSuspended or UpdateUserStatusToActive and the check of
\* RowsAffected
StatusUpdate(r, dbOk) ==
    /\ usPc[r] = "update"
    /\ usOp[r] \in {"SuspendUser", "ActivateUser"}
    /\ LET matches == IF usOp[r] = "SuspendUser"
                      THEN UpdateUserStatusToSuspendedWhere(usRow)
                      ELSE UpdateUserStatusToActiveWhere(usRow)
           to == IF usOp[r] = "SuspendUser" THEN "SUSPENDED" ELSE "ACTIVE"
       IN  /\ ~UsWaits(r)
           /\ IF ~dbOk
              THEN /\ UsReturn(r, AppError("DBError"))
                   /\ UNCHANGED <<usRow, usLost>>
              ELSE IF matches
              THEN /\ usRow' = [usRow EXCEPT !.status = to]
                   /\ UsGoto(r, "fetch")
                   /\ UNCHANGED usLost
              ELSE /\ usLost' = [usLost EXCEPT ![r] = TRUE]
                   /\ UsGoto(r, "refetch")
                   /\ UNCHANGED usRow
    /\ UNCHANGED <<usAcct, usLock, usOp>>

\* no row was affected: the user is read again, the error of the read
\* dropped, and the status read is reported
Refetch(r, readOk) ==
    /\ usPc[r] = "refetch"
    /\ LET to == IF usOp[r] = "SuspendUser" THEN "SUSPENDED" ELSE "ACTIVE"
       IN  IF readOk
           THEN UsReturn(r, InvalidStateTransition(usRow.status, to))
           ELSE UsReturn(r, AppError("Internal"))
    /\ UNCHANGED <<usRow, usAcct, usLock, usOp, usLost>>

\* return s.GetUserByExternalID(ctx, externalID): the user unless deleted
Fetch(r) ==
    /\ usPc[r] = "fetch"
    /\ IF usRow.status = "DELETED" THEN UsReturn(r, AppError("NotFound"))
       ELSE UsReturn(r, Success)
    /\ UNCHANGED <<usRow, usAcct, usLock, usOp, usLost>>

\* DeleteUser up to WithTx
DeleteUser(r) ==
    /\ UsCalled(r, "DeleteUser")
    /\ IF usRow.status = "DELETED" THEN UsReturn(r, Success)
       ELSE UsGoto(r, "update")
    /\ UNCHANGED <<usRow, usAcct, usLock>>

\* WithTx begins and fn runs UpdateUserStatusToDeleted in the transaction:
\* an error is DBError and the transaction is rolled back; the update keeps
\* the row it found by id locked until the transaction ends, whether or not
\* it changed the row
DeleteUpdate(r, dbOk) ==
    /\ usPc[r] = "update"
    /\ usOp[r] = "DeleteUser"
    /\ ~UsWaits(r)
    /\ IF ~dbOk
       THEN /\ UsReturn(r, AppError("DBError"))
            /\ UNCHANGED <<usLock, usLost>>
       ELSE /\ UsGoto(r, "intx")
            /\ usLock' = r
            /\ usLost' = [usLost EXCEPT ![r] = ~UpdateUserStatusToDeletedWhere(usRow)]
    /\ UNCHANGED <<usRow, usAcct, usOp>>

\* the rest of fn and the end of WithTx.  When a row was affected the
\* user's account is closed, a failure to find or close it only logged; fn
\* returns nil and the transaction commits, or fails to and is rolled back
DeleteCommit(r, acctOk, commitOk) ==
    /\ usPc[r] = "intx"
    /\ LET f == Finish("ok", "WithTx", commitOk)
           affected == ~usLost[r]
       IN  /\ IF affected /\ f.tx = "committed"
              THEN /\ usRow' = [usRow EXCEPT !.status = "DELETED"]
                   /\ usAcct' = IF acctOk THEN "CLOSED" ELSE usAcct
              ELSE UNCHANGED <<usRow, usAcct>>
           /\ usLock' = "none"
           /\ UsReturn(r, IF f.ret = NilErr THEN Success
                          ELSE AppError("CommitFailed"))
    /\ UNCHANGED <<usOp, usLost>>

\* the error of a KYC handler that finds a kyc_status it does not start
\* from: RequestKycVerification replaces the Details by a reason that names
\* the kyc_status, ApproveKyc and RejectKyc leave from and to in them
KycRejection(op, kyc) ==
    IF op = "RequestKycVerification"
    THEN WithDetails(InvalidStateTransition(kyc, "PENDING"),
                     <<"KYC can only be requested from NONE or REJECTED status, current: ",
                       kyc>>)
    ELSE InvalidStateTransition(kyc, KycTo(op))

\* RequestKycVerification, ApproveKyc or RejectKyc up to its UPDATE: the
\* read that leaves deleted users out and the check on the kyc_status read
KycCheck(r, op) ==
    /\ UsCalled(r, op)
    /\ IF usRow.status = "DELETED" THEN UsReturn(r, AppError("NotFound"))
       ELSE IF usRow.kyc \notin KycFrom(op)
       THEN UsReturn(r, KycRejection(op, usRow.kyc))
       ELSE UsGoto(r, "update")
    /\ UNCHANGED <<usRow, usAcct, usLock>>

RequestKycVerification(r) == KycCheck(r, "RequestKycVerification")
ApproveKyc(r) == KycCheck(r, "ApproveKyc")
RejectKyc(r) == KycCheck(r, "RejectKyc")

\* UpdateUserKycToPending, ToVerified or ToRejected: an :exec query, the
\* number of rows it changed is not looked at
KycUpdate(r, dbOk) ==
    /\ usPc[r] = "update"
    /\ usOp[r] \in {"RequestKycVerification", "ApproveKyc", "RejectKyc"}
    /\ ~UsWaits(r)
    /\ IF ~dbOk
       THEN UsReturn(r, AppError("DBError")) /\ UNCHANGED usRow
       ELSE /\ UsGoto(r, "fetch")
            /\ usRow' = IF UpdateUserKycWhere(usRow)
                        THEN [usRow EXCEPT !.kyc = KycTo(usOp[r])]
                        ELSE usRow
    /\ UNCHANGED <<usAcct, usLock, usOp, usLost>>

UsNext ==
    \/ \E r \in UserRequests : SuspendUser(r) /\ UsFrame
    \/ \E r \in UserRequests : ActivateUser(r) /\ UsFrame
    \/ \E r \in UserRequests, ok \in BOOLEAN : StatusUpdate(r, ok) /\ UsFrame
    \/ \E r \in UserRequests, ok \in BOOLEAN : Refetch(r, ok) /\ UsFrame
    \/ \E r \in UserRequests : Fetch(r) /\ UsFrame
    \/ \E r \in UserRequests : DeleteUser(r) /\ UsFrame
    \/ \E r \in UserRequests, ok \in BOOLEAN : DeleteUpdate(r, ok) /\ UsFrame
    \/ \E r \in UserRequests, a \in BOOLEAN, ok \in BOOLEAN :
           DeleteCommit(r, a, ok) /\ UsFrame
    \/ \E r \in UserRequests : RequestKycVerification(r) /\ UsFrame
    \/ \E r \in UserRequests : ApproveKyc(r) /\ UsFrame
    \/ \E r \in UserRequests : RejectKyc(r) /\ UsFrame
    \/ \E r \in UserRequests, ok \in BOOLEAN : KycUpdate(r, ok) /\ UsFrame

(***************************************************************************)
(* User aggregate claims                                                   *)
(***************************************************************************)

StatusOps == {"SuspendUser", "ActivateUser"}
KycOps == {"RequestKycVerification", "ApproveKyc", "RejectKyc"}

\* the (current state, event) pairs of the user's transition tables
Admissible(row, op) ==
    IF op = "SuspendUser" THEN row.status = "ACTIVE"
    ELSE IF op = "ActivateUser" THEN row.status = "SUSPENDED"
    ELSE IF op = "DeleteUser" THEN row.status # "DELETED"
    ELSE row.status # "DELETED" /\ row.kyc \in KycFrom(op)

\* request r is called with a pair that is not in the table
InadmissibleCall(r) ==
    \/ SuspendUser(r) /\ ~Admissible(usRow, "SuspendUser")
    \/ ActivateUser(r) /\ ~Admissible(usRow, "ActivateUser")
    \/ \E op \in KycOps : KycCheck(r, op) /\ ~Admissible(usRow, op)

\* request r, past its check, runs its UPDATE when the pair is not in the
\* table any more
InadmissibleUpdate(r) ==
    /\ \E ok \in BOOLEAN : StatusUpdate(r, ok) \/ KycUpdate(r, ok)
    /\ ~Admissible(usRow, usOp[r])

\* C31: a suspend, activate or KYC request whose (current state, event) pair
\* is not in the table, at its call or at its UPDATE after a concurrent
\* change, is rejected and leaves the user row and the account as they were
C31_InadmissibleRejected ==
    [][\A r \in UserRequests :
          /\ InadmissibleCall(r) =>
                /\ usPc'[r] = "idle" /\ usRet'[r] # Success
                /\ usRow' = usRow /\ usAcct' = usAcct
          /\ InadmissibleUpdate(r) =>
                /\ usPc'[r] # "fetch"
                /\ usRow' = usRow /\ usAcct' = usAcct]_vars

\* the same for the suspend and activate requests alone
StatusInadmissibleRejected ==
    [][\A r \in UserRequests :
          (InadmissibleUpdate(r) /\ usOp[r] \in StatusOps) =>
              /\ usPc'[r] # "fetch"
              /\ usRow' = usRow /\ usAcct' = usAcct]_vars

\* request r rejects a transition whose pair is not in the table: at the
\* check of a suspend, an activate or a KYC request on a user that is not
\* deleted, or after the re-read that follows an UPDATE of no row
Rejects(r) ==
    \/ SuspendUser(r) /\ ~Admissible(usRow, "SuspendUser")
    \/ ActivateUser(r) /\ ~Admissible(usRow, "ActivateUser")
    \/ \E op \in KycOps :
          KycCheck(r, op) /\ usRow.status # "DELETED" /\ usRow.kyc \notin KycFrom(op)
    \/ Refetch(r, TRUE)

\* the Details of error e hold state: as the value of from, or in the
\* text of the reason
DetailsHold(e, state) ==
    e.from = state \/ \E i \in DOMAIN e.reason : e.reason[i] = state

\* C32: every rejection of a transition that is not in the table returns
\* InvalidStateTransition whose details hold the state the aggregate is in
\* when it is rejected
C32_RejectionCarriesState ==
    [][\A r \in UserRequests :
          Rejects(r) =>
              /\ usRet'[r].code = "InvalidStateTransition"
              /\ DetailsHold(usRet'[r], IF usOp'[r] \in StatusOps
                                        THEN usRow.status ELSE usRow.kyc)]_vars

\* the same with the calls on a deleted user left out
LiveRejectionCarriesState ==
    [][\A r \in UserRequests :
          (Rejects(r) /\ (usRow.status # "DELETED" \/ Refetch(r, TRUE))) =>
              /\ usRet'[r].code = "InvalidStateTransition"
              /\ DetailsHold(usRet'[r], IF usOp'[r] \in StatusOps
                                        THEN usRow.status ELSE usRow.kyc)]_vars

\* a step of request r's DeleteUser in which no database call fails
DeleteStep(r) ==
    \/ DeleteUser(r)
    \/ DeleteUpdate(r, TRUE)
    \/ \E a \in BOOLEAN : DeleteCommit(r, a, TRUE)

\* a DeleteUser on a user that is already deleted, at its call or after
\* another delete won the race, changes neither the user row nor the
\* account and, when no database call fails, returns success
DeletedUserDeleteIsNoop ==
    [][\A r \in UserRequests :
          /\ (usRow.status = "DELETED" /\ usOp'[r] = "DeleteUser")
                => (usRow' = usRow /\ usAcct' = usAcct)
          /\ (usRow.status = "DELETED" /\ DeleteStep(r))
                => (usPc'[r] = "idle" => usRet'[r] = Success)]_vars

\* the same for wallets: a DeleteWallet on a wallet that is already deleted,
\* at its read or at its update, changes no row and returns success
DeletedWalletDeleteIsNoop ==
    [][\A r \in Requests, w \in Wallets :
          /\ (DelUpdate(r) /\ wlArg[r] = w /\ wlDb[w].deleted)
                => (wlDb' = wlDb /\ wlAcct' = wlAcct /\ wlPc'[r] = "del_refetch")
          /\ (wlDb[w].deleted
                /\ (DeleteWallet(r, w, TRUE) \/ (DelRefetch(r, TRUE) /\ wlArg[r] = w)))
                => (wlDb' = wlDb /\ wlAcct' = wlAcct
                    /\ wlRet' = WlReturned("ok", FALSE))]_vars

\* C33: deleting a user or a wallet that is already deleted, at the call or
\* after another delete won the race, changes no state and, when no
\* database call fails, returns success
C33_DeleteDeletedIsNoop == DeletedUserDeleteIsNoop /\ DeletedWalletDeleteIsNoop

\* two deletes of one wallet have raced and nothing else has happened to
\* the wallets: the wallet is deleted, and the delete of request r, which had
\* read it before, found it deleted at its UPDATE, which changed no row
WalletDeletesRaced ==
    \E r \in Requests, w \in Wallets :
        /\ wlDb = [v \in Wallets |-> IF v = w THEN [NewWallet EXCEPT !.deleted = TRUE]
                                      ELSE NewWallet]
        /\ wlPc = [q \in Requests |-> IF q = r THEN "del_refetch" ELSE "idle"]
        /\ wlArg = [q \in Requests |-> IF q = r THEN w ELSE NoWallet]
        /\ wlAcct = "null"
        /\ wlRet = NoWlReturn
        /\ \A k \in WlKeys : wlNonces[k] = NoEntry

\* two deletes of one wallet have raced, the loser finding the wallet
\* deleted at its UPDATE; then two deletes of the user raced: one found the
\* user deleted at its UPDATE and returned success, and a later one found it
\* deleted at its read
C33_Witness ==
    /\ WalletDeletesRaced
    /\ usRow.status = "DELETED"
    /\ \E r \in UserRequests, q \in UserRequests :
          /\ r # q
          /\ usOp[r] = "DeleteUser" /\ usLost[r]
          /\ usPc[r] = "idle" /\ usRet[r] = Success
          /\ usOp[q] = "DeleteUser" /\ ~usLost[q]
          /\ usPc[q] = "idle" /\ usRet[q] = Success

\* C36: once the status is DELETED it stays DELETED
C36_DeletedIsTerminal ==
    [][usRow.status = "DELETED" => usRow'.status = "DELETED"]_vars

\* an activate and a suspend that had read the user before it was deleted
\* ran their UPDATE on the deleted user, and it is still deleted
C36_Witness ==
    /\ usRow.status = "DELETED"
    /\ \E r \in UserRequests :
          /\ usOp[r] \in StatusOps /\ usLost[r]
          /\ usRet[r].code = "InvalidStateTransition"
          /\ usRet[r].from = "DELETED"

\* the transitions of kyc_status
KycTable ==
    {<<"NONE", "PENDING">>, <<"REJECTED", "PENDING">>,
     <<"PENDING", "VERIFIED">>, <<"PENDING", "REJECTED">>}

\* C38: kyc_status changes only along NONE -> PENDING, REJECTED -> PENDING,
\* PENDING -> VERIFIED and PENDING -> REJECTED
C38_KycOnlyAlongTable ==
    [][usRow'.kyc # usRow.kyc => <<usRow.kyc, usRow'.kyc>> \in KycTable]_vars

(***************************************************************************)
(*                        ORDER STATUS MACHINE                             *)
(*                                                                         *)
(* No code in the repository changes an order's status.  The statuses, the *)
(* events and the transition matrix are those of the design document; the  *)
(* transition function is the table lookup the specification describes.    *)
(***************************************************************************)

StatusOrders == {"s1", "s2"}

OrderStatuses == {"PENDING", "CONFIRMED", "PAID", "SHIPPED", "COMPLETED",
                  "CANCELLED", "REFUNDED"}

\* the events of the status diagram and the status each one leads to
OrderEvents == {"confirm", "pay", "ship", "complete", "cancel", "refund"}
OrderEventTarget(e) ==
    IF e = "confirm" THEN "CONFIRMED"
    ELSE IF e = "pay" THEN "PAID"
    ELSE IF e = "ship" THEN "SHIPPED"
    ELSE IF e = "complete" THEN "COMPLETED"
    ELSE IF e = "cancel" THEN "CANCELLED"
    ELSE "REFUNDED"

\* a matrix that also lets a shipped order be refunded
OrderMatrixWithShippedRefund ==
    [from \in OrderStatuses |->
        IF from = "PENDING" THEN {"CONFIRMED", "CANCELLED"}
        ELSE IF from = "CONFIRMED" THEN {"PAID", "CANCELLED"}
        ELSE IF from = "PAID" THEN {"SHIPPED", "REFUNDED"}
        ELSE IF from = "SHIPPED" THEN {"COMPLETED", "REFUNDED"}
        ELSE {}]

\* the transition matrix: for every From row the To columns that are ticked
OrderMatrix ==
    [from \in OrderStatuses |->
        IF from = "PENDING" THEN {"CONFIRMED", "CANCELLED"}
        ELSE IF from = "CONFIRMED" THEN {"PAID", "CANCELLED"}
        ELSE IF from = "PAID" THEN {"SHIPPED", "REFUNDED"}
        ELSE IF from = "SHIPPED" THEN {"COMPLETED"}
        ELSE {}]

\* the transition function: the next status when (status, event) is in the
\* table; success without a change when the event leads to the terminal
\* status the order is in; InvalidStateTransition with the status otherwise
OrderTransition(status, e) ==
    LET to == OrderEventTarget(e)
    IN  IF to \in OrderMatrix[status]
        THEN [status |-> to, ret |-> Success]
        ELSE IF to = status /\ OrderMatrix[status] = {}
        THEN [status |-> status, ret |-> Success]
        ELSE [status |-> status, ret |-> InvalidStateTransition(status, to)]

SmInit ==
    /\ smStatus = [o \in StatusOrders |-> "PENDING"]
    /\ smRet = [o \in StatusOrders |-> NoReturn]

\* an event is issued on an order
OrderEvent(o, e) ==
    LET t == OrderTransition(smStatus[o], e)
    IN  /\ smStatus' = [smStatus EXCEPT ![o] = t.status]
        /\ smRet' = [smRet EXCEPT ![o] = t.ret]

SmNext == \E o \in StatusOrders, e \in OrderEvents : OrderEvent(o, e) /\ SmFrame

\* the transitions the order's status may make
OrderPath ==
    {<<"PENDING", "CONFIRMED">>, <<"CONFIRMED", "PAID">>, <<"PAID", "SHIPPED">>,
     <<"SHIPPED", "COMPLETED">>, <<"PENDING", "CANCELLED">>,
     <<"CONFIRMED", "CANCELLED">>, <<"PAID", "REFUNDED">>}

\* C34: an order's status changes only along Pending -> Confirmed -> Paid ->
\* Shipped -> Completed, Pending / Confirmed -> Cancelled and Paid ->
\* Refunded, and never once it is Completed, Cancelled or Refunded
C34_OrderStatusPath ==
    [][\A o \in StatusOrders :
          /\ smStatus'[o] # smStatus[o]
                => <<smStatus[o], smStatus'[o]>> \in OrderPath
          /\ smStatus[o] \in {"COMPLETED", "CANCELLED", "REFUNDED"}
                => smStatus'[o] = smStatus[o]]_vars

\* one order is completed and was last refused an event, the other is
\* refunded
C34_Witness ==
    \E o \in StatusOrders, p \in StatusOrders :
        /\ smStatus[o] = "COMPLETED"
        /\ smRet[o] = InvalidStateTransition("COMPLETED", "REFUNDED")
        /\ smStatus[p] = "REFUNDED"

(***************************************************************************)
(*                          IDEMPOTENCY CACHE                              *)
(*                                                                         *)
(* The middleware is not in the repository.  The flow is the one the       *)
(* design document gives for the idempotency_keys table, which is the flow *)
(* of the specification: SELECT by key; a row found answers the request,   *)
(* no row found runs the business logic and then INSERTs the response; a   *)
(* batch deletes expired rows.  All requests carry one key.                *)
(***************************************************************************)

\* the horizon of the clock, the TTL of a row and the cap on the number of
\* executions counted, in ticks and executions
MaxIkNow == 2
IdemTtl == 1
MaxEffects == 2

IdemRequests == {"i1", "i2"}
BodyHashes == {"h1", "h2"}
HandlerOutcomes == {"done", "refused"}

NoIdemRow == [hash |-> "none", status |-> 0, body |-> 0, expires |-> 0]
NoResponse == [status |-> 0, body |-> 0]

\* 409 Conflict, IDEMPOTENCY_CONFLICT
IdempotencyConflict == [status |-> 409, body |-> 0]

\* a replay that gives back the stored status without the stored body
StoredStatusOnly(row) == [status |-> row.status, body |-> 0]

\* the stored response_status and response_body
StoredResponse(row) == [status |-> row.status, body |-> row.body]

\* the response of the business logic: its n-th effect creates resource n
HandlerResponse(outcome, n) ==
    IF outcome = "done" THEN [status |-> 201, body |-> n]
    ELSE [status |-> 422, body |-> 0]

IkInit ==
    /\ ikRow = NoIdemRow
    /\ ikNow = 0
    /\ ikPc = [q \in IdemRequests |-> "idle"]
    /\ ikHash = [q \in IdemRequests |-> "h1"]
    /\ ikResp = [q \in IdemRequests |-> NoResponse]
    /\ ikReplayed = [q \in IdemRequests |-> FALSE]
    /\ ikEffects = [h \in BodyHashes |-> 0]
    /\ ikCleaned = FALSE

IkTick ==
    /\ ikNow < MaxIkNow
    /\ ikNow' = ikNow + 1
    /\ UNCHANGED <<ikRow, ikPc, ikHash, ikResp, ikReplayed, ikEffects, ikCleaned>>

\* a request arrives: SELECT * FROM idempotency_keys WHERE idempotency_key = ?
\* A row with the request's hash answers it, a row with another hash is a
\* conflict, no row sends it on to the business logic
IdemLookup(q, h) ==
    /\ ikPc[q] = "idle"
    /\ ikHash' = [ikHash EXCEPT ![q] = h]
    /\ IF ikRow = NoIdemRow
       THEN /\ ikPc' = [ikPc EXCEPT ![q] = "logic"]
            /\ ikResp' = [ikResp EXCEPT ![q] = NoResponse]
            /\ ikReplayed' = [ikReplayed EXCEPT ![q] = FALSE]
       ELSE /\ ikResp' = [ikResp EXCEPT ![q] = IF ikRow.hash = h
                                               THEN StoredResponse(ikRow)
                                               ELSE IdempotencyConflict]
            /\ ikReplayed' = [ikReplayed EXCEPT ![q] = ikRow.hash = h]
            /\ UNCHANGED ikPc
    /\ UNCHANGED <<ikRow, ikNow, ikEffects, ikCleaned>>

\* the business logic runs
IdemLogic(q, outcome) ==
    /\ ikPc[q] = "logic"
    /\ ikEffects[ikHash[q]] < MaxEffects
    /\ LET n == IF outcome = "done" THEN ikEffects[ikHash[q]] + 1
                ELSE ikEffects[ikHash[q]]
       IN  /\ ikEffects' = [ikEffects EXCEPT ![ikHash[q]] = n]
           /\ ikResp' = [ikResp EXCEPT ![q] = HandlerResponse(outcome, n)]
    /\ ikPc' = [ikPc EXCEPT ![q] = "insert"]
    /\ UNCHANGED <<ikRow, ikNow, ikHash, ikReplayed, ikCleaned>>

\* INSERT of the response under the unique key, then the response is
\* returned.  When a row of the key exists by now the INSERT fails; the flow
\* leaves open whether the request then returns its response or an error
IdemInsert(q, onDuplicate) ==
    /\ ikPc[q] = "insert"
    /\ IF ikRow = NoIdemRow
       THEN /\ ikRow' = [hash |-> ikHash[q], status |-> ikResp[q].status,
                         body |-> ikResp[q].body, expires |-> ikNow + IdemTtl]
            /\ UNCHANGED ikResp
       ELSE /\ ikResp' = [ikResp EXCEPT ![q] = IF onDuplicate = "response" THEN @
                                               ELSE [status |-> 500, body |-> 0]]
            /\ UNCHANGED ikRow
    /\ ikPc' = [ikPc EXCEPT ![q] = "idle"]
    /\ UNCHANGED <<ikNow, ikHash, ikReplayed, ikEffects, ikCleaned>>

\* the batch: DELETE FROM idempotency_keys WHERE expires_at < NOW()
IdemCleanup ==
    /\ ikRow # NoIdemRow
    /\ ikRow.expires < ikNow
    /\ ikRow' = NoIdemRow
    /\ ikCleaned' = TRUE
    /\ UNCHANGED <<ikNow, ikPc, ikHash, ikResp, ikReplayed, ikEffects>>

IkNext ==
    \/ IkTick /\ IkFrame
    \/ \E q \in IdemRequests, h \in BodyHashes : IdemLookup(q, h) /\ IkFrame
    \/ \E q \in IdemRequests, o \in HandlerOutcomes : IdemLogic(q, o) /\ IkFrame
    \/ \E q \in IdemRequests, d \in {"response", "error"} :
          IdemInsert(q, d) /\ IkFrame
    \/ IdemCleanup /\ IkFrame

\* C35: a request that finds its key stored with its own hash is given the
\* stored status and body, and the business logic does not run for it
C35_ReplayReturnsStored ==
    [][\A q \in IdemRequests, h \in BodyHashes :
          (IdemLookup(q, h) /\ ikRow # NoIdemRow /\ ikRow.hash = h)
          => /\ ikResp'[q] = [status |-> ikRow.status, body |-> ikRow.body]
             /\ ikPc'[q] = "idle"
             /\ ikEffects' = ikEffects
             /\ ikRow' = ikRow]_vars

\* a request ran the business logic and stored 201 with resource 1; the
\* other one, sent with the same body, was given that response, and the
\* logic took effect once
C35_Witness ==
    \E q \in IdemRequests, p \in IdemRequests :
        /\ q # p
        /\ ikRow # NoIdemRow /\ ikRow.status = 201 /\ ikRow.body = 1
        /\ ikPc[q] = "idle" /\ ikReplayed[q] /\ ikHash[q] = ikRow.hash
        /\ ikResp[q] = [status |-> 201, body |-> 1]
        /\ ikPc[p] = "idle" /\ ~ikReplayed[p] /\ ikResp[p] = ikResp[q]
        /\ ikEffects[ikRow.hash] = 1

\* C39: as long as no row of the key has expired and been removed, the
\* business logic takes effect at most once for the requests that carry the
\* key with one body, whenever they arrive
C39_EffectAtMostOnce ==
    ~ikCleaned => \A h \in BodyHashes : ikEffects[h] <= 1

(***************************************************************************)
(*                           SPECIFICATIONS                                *)
(***************************************************************************)

Init == ObInit /\ NsInit /\ LkInit /\ UwInit /\ LgInit /\ WlInit /\ PyInit
        /\ IvInit /\ OcInit /\ OtInit /\ RgInit /\ DqInit /\ AbInit /\ UsInit
        /\ SmInit /\ IkInit

OutboxSpec == Init /\ [][ObNext]_vars

\* Workers keep polling and every started step completes; the clock runs;
\* a crash is never forced
OutboxFairSpec ==
    /\ Init
    /\ [][ObNext]_vars
    /\ WF_vars(ObTick /\ ObFrame)
    /\ \A w \in Workers :
         /\ WF_vars(Poll(w) /\ ObFrame)
         /\ WF_vars(Lock(w) /\ ObFrame)
         /\ WF_vars(Process(w) /\ ObFrame)
         /\ WF_vars(Report(w) /\ ObFrame)

NonceSpec == Init /\ [][NsNext]_vars

LockSpec == Init /\ [][LkNext]_vars

UowSpec == Init /\ [][UwNext]_vars

LedgerSpec == Init /\ [][LgNext]_vars

WalletSpec == Init /\ [][WlNext]_vars

PaymentSpec == Init /\ [][PyNext]_vars

InventorySpec == Init /\ [][IvNext]_vars

OrderTxSpec == Init /\ [][OtNext]_vars

RegistrationSpec == Init /\ [][RgNext]_vars

DeductSpec == Init /\ [][DqNext]_vars

BalanceSpec == Init /\ [][AbNext]_vars

UserSpec == Init /\ [][UsNext]_vars

\* The deletes of both services.  The user service and the wallet service
\* keep their rows in different tables and a step of one leaves the rows of
\* the other as they are, so that their runs are taken one after the
\* other: the wallet service runs while no user request has been made, and
\* the user service runs on the wallets as they are at first or as two
\* racing deletes of one wallet have left them, the wallet service making
\* no step after it
DeleteNext ==
    \/ UsInit /\ WlNext
    \/ (WlInit \/ WalletDeletesRaced) /\ UsNext

DeleteSpec == Init /\ [][DeleteNext]_vars

OrderStatusSpec == Init /\ [][SmNext]_vars

IdempotencySpec == Init /\ [][IkNext]_vars

\* Every Create that has been called keeps running until it returns.
OrderSpec ==
    Init /\ [][OcNext]_vars /\ \A c \in OrderCallers : WF_vars(CreateStep(c))

====
